---- MODULE Spec2Model ----
(***************************************************************************)
(* A model of the tokio multiplexer of the xenstore client                 *)
(* (src/src/tokio/interface.rs, src/src/tokio/mod.rs).                     *)
(*                                                                         *)
(* Processes: the client side (handles, pending calls, watch streams), the *)
(* multiplexer task (XsTokioState::run), the writer task and the reader    *)
(* task of launch_xenstore_task.  The daemon is folded into the reader: a  *)
(* message "read" from the transport is whatever the daemon chose to send. *)
(*                                                                         *)
(* Scaling.  The table width MAX_REQUEST_COUNT (32 in interface.rs:14),    *)
(* the capacity of the request/response channels (4, interface.rs:278-279) *)
(* and of a subscriber's event channel (8, mod.rs:159) are scaled down to  *)
(* the bounds below; every formula is stated in terms of the names.        *)
(*                                                                         *)
(* The command channel is created in interface.rs:306 and used through the *)
(* non-blocking send of mod.rs:61-66,151-153,162-168; the model gives it   *)
(* MaxQueue places and disables a sender when they are taken.               *)
(*                                                                         *)
(* Payloads are lists of numbers: a path is the number of the call that    *)
(* named it, a token is a number of Tokens, an event value a number of     *)
(* EventVals.  Each stands for a string of one byte, BigData for a string  *)
(* of XENSTORE_PAYLOAD_MAX bytes; XENSTORE_PAYLOAD_MAX (4096 in            *)
(* wire.rs:21) is scaled down as well.                                     *)
(***************************************************************************)
EXTENDS Integers, Sequences, FiniteSets, TLC

\* ------------------------------------------------------------------ bounds
MAX_REQUEST_COUNT == 2
CHANNEL_CAP == 1
EVENT_CAP == 1
MaxOps == 3
MaxQueue == 2
MaxHandles == 2
NumTokens == 2
NumEventVals == 1
MaxBogus == 1
NumLoggedVals == 2
MaxYield == 2
MaxTypeValue == 24
MaxDecodeLen == 2
MaxExcess == 1
MaxStrLen == 2
MaxListLen == 3
XENSTORE_PAYLOAD_MAX == 4

Ops == 1..MaxOps
Tokens == 1..NumTokens
EventVals == 1..NumEventVals
SlotIds == 0..(MAX_REQUEST_COUNT - 1)
NoSlot == 0 - 1

VARIABLES
    pending_tasks,      \* XsTokioState.pending_tasks: slot index -> task
    watch_subscribers,  \* XsTokioState.watch_subscribers: token -> subscriber
    task_count,         \* XsTokioState.task_count
    message_receiver,   \* the command channel (client handles -> multiplexer)
    request_channel,    \* multiplexer -> writer task
    response_channel,   \* reader task -> multiplexer
    mux_pc,             \* "select" | "send_request" | "send_event" | "ended"
    mux_hold,           \* what the multiplexer holds while suspended in a send
    writer_alive,       \* the writer task runs (request_rx exists)
    reader_alive,       \* the reader task runs (response_tx exists)
    daemon_reqs,        \* messages written to the transport, not yet answered
    handles,            \* number of live XsTokio clones
    next_op,            \* number of the next call
    reply,              \* per call: the state of its one-shot reply channel
    watch,              \* per call: its XsTokioWatch ("none" | "live" | "dropped")
    evbuf,              \* per call: the buffer of its event channel
    bogus,              \* history: number of messages read that answer no outstanding request
    oversized,          \* history: the calls whose request payload exceeds XENSTORE_PAYLOAD_MAX
    yielded,            \* history: per call, the items its stream has yielded
    handle_drops,       \* history: number of XsTokio clones dropped so far
    arg,                \* the input of the function under study (codec, classification)
    res                 \* its outcome

vars == <<pending_tasks, watch_subscribers, task_count, message_receiver,
          request_channel, response_channel, mux_pc, mux_hold, writer_alive,
          reader_alive, daemon_reqs, handles, next_op, reply, watch, evbuf, bogus,
          oversized, yielded, handle_drops, arg, res>>

muxState == <<pending_tasks, watch_subscribers, task_count>>
clientState == <<handles, next_op, reply, watch, evbuf>>
ioState == <<writer_alive, reader_alive, daemon_reqs>>
aux == <<oversized, yielded, handle_drops, arg, res>>
taskVars == <<muxState, message_receiver, request_channel, response_channel, mux_pc,
              mux_hold, ioState, clientState, bogus, oversized, yielded, handle_drops>>

\* ------------------------------------------------------------------ values
XsMessage(t, id, p) == [msg_type |-> t, request_id |-> id, payload |-> p]

from_string(t, id, s) == XsMessage(t, id, <<s>>)

from_string_slice(t, id, strings) == XsMessage(t, id, strings)

\* The data of a write() that is too long for one message.
BigData == 0 - 2

StrLen(s) == IF s = BigData THEN XENSTORE_PAYLOAD_MAX ELSE 1

\* `self.payload.len()` of a payload built by from_string / from_string_slice:
\* every string is followed by a NUL.
RECURSIVE PayloadLen(_)
PayloadLen(strings) ==
    IF strings = <<>> THEN 0
    ELSE StrLen(Head(strings)) + 1 + PayloadLen(Tail(strings))

NoTask == [kind |-> "None"]
TaskRequest(sender) == [kind |-> "Request", sender |-> sender]
TaskWatchSubscribe(path, channel, result_channel, token) ==
    [kind |-> "WatchSubscribe", path |-> path, channel |-> channel,
     result_channel |-> result_channel, token |-> token]
TaskWatchUnsubscribe(token) == [kind |-> "WatchUnsubscribe", token |-> token]

WatchSubscriberInfo(channel, path) == [channel |-> channel, path |-> path]

MsgRequest(request, response_sender) ==
    [type |-> "Request", request |-> request, response_sender |-> response_sender]
MsgWatchSubscribe(path, event_sender, result_channel) ==
    [type |-> "WatchSubscribe", path |-> path, event_sender |-> event_sender,
     result_channel |-> result_channel]
MsgWatchUnsubscribe(token) == [type |-> "WatchUnsubscribe", token |-> token]

NoHold == [what |-> "nothing"]

\* No function is under study.
NoArg == [fn |-> "none"]
NoRes == [is |-> "none"]

\* reply channel states
RNone == [st |-> "none"]
RWaiting(full) == [st |-> "waiting", full |-> full]
RAbandoned == [st |-> "abandoned"]
RBrokenPipe == [st |-> "BrokenPipe"]
RMsg(m) == [st |-> "msg", msg |-> m]
ROk(token) == [st |-> "ok", token |-> token]
RErr(kind) == [st |-> "err", kind |-> kind]

EmptyMap == [t \in {} |-> NoTask]
MapInsert(f, k, v) == [x \in (DOMAIN f) \cup {k} |-> IF x = k THEN v ELSE f[x]]
MapRemove(f, k) == [x \in (DOMAIN f) \ {k} |-> f[x]]

SetMin(S) == CHOOSE x \in S : \A y \in S : x <= y

\* ------------------------------------------------------------------ wire values
\* enum XsMessageType, in the order of its declaration.
XsMessageType ==
    <<"Control", "Directory", "Read", "GetPerms",
       "Watch", "Unwatch", "TransactionStart", "TransactionEnd",
       "Introduce", "Release", "GetDomainPath", "Write",
       "Mkdir", "Rm", "SetPerms", "WatchEvent",
       "Error", "IsDomainIntroduced", "Resume", "SetTarget",
       "ResetWatches", "DirectoryPart">>

MessageTypes == {XsMessageType[i] : i \in 1..Len(XsMessageType)}

\* Strings are sequences of bytes.  A byte below 128 is a character, NUL is
\* 0, and BadByte stands for the bytes that are not valid UTF-8.
NUL == 0
BadByte == 255

\* str::from_utf8 succeeds.
Utf8Valid(buffer) == \A k \in 1..Len(buffer) : buffer[k] < 128

\* io::Result and io::Error values.
Ok(v) == [ok |-> TRUE, value |-> v]
Err(e) == [ok |-> FALSE, error |-> e]
IoError(kind, text) == [kind |-> kind, text |-> text]

\* Mutant of parse_nul_string: a buffer holding only a NUL is no string.
parse_nul_string_EmptyIsNone(buffer) ==
    IF buffer = <<>> \/ buffer = <<NUL>> THEN Ok(<<"None">>)
    ELSE LET b == IF buffer[Len(buffer)] = NUL
                  THEN SubSeq(buffer, 1, Len(buffer) - 1) ELSE buffer
         IN IF Utf8Valid(b) THEN Ok(<<"Some", b>>) ELSE Err("Utf8Error")

\* parse_nul_string: Ok(None) is Ok(<<"None">>), Ok(Some(s)) is Ok(<<"Some", s>>).
parse_nul_string(buffer) ==
    IF buffer = <<>> THEN Ok(<<"None">>)
    ELSE LET b == IF buffer[Len(buffer)] = NUL
                  THEN SubSeq(buffer, 1, Len(buffer) - 1) ELSE buffer
         IN IF Utf8Valid(b) THEN Ok(<<"Some", b>>) ELSE Err("Utf8Error")

parse_payload_str(m) == parse_nul_string(m.payload)

\* The `match e_string` of parse_error: error names and their kinds.
ErrorTable ==
    <<
       <<<<69, 73, 78, 86, 65, 76>>, "InvalidInput">>,   \* EINVAL
       <<<<69, 65, 67, 67, 69, 83>>, "PermissionDenied">>,   \* EACCES
       <<<<69, 69, 88, 73, 83, 84>>, "AlreadyExists">>,   \* EEXIST
       <<<<69, 73, 83, 68, 73, 82>>, "AlreadyExists">>,   \* EISDIR
       <<<<69, 78, 79, 69, 78, 84>>, "NotFound">>,   \* ENOENT
       <<<<69, 78, 79, 77, 69, 77>>, "OutOfMemory">>,   \* ENOMEM
       <<<<69, 78, 79, 83, 80, 67>>, "OutOfMemory">>,   \* ENOSPC
       <<<<69, 73, 79>>, "Other">>,   \* EIO
       <<<<69, 78, 79, 84, 69, 77, 80, 84, 89>>, "InvalidInput">>,   \* ENOTEMPTY
       <<<<69, 78, 79, 83, 89, 83>>, "Unsupported">>,   \* ENOSYS
       <<<<69, 82, 79, 70, 83>>, "PermissionDenied">>,   \* EROFS
       <<<<69, 66, 85, 83, 89>>, "AlreadyExists">>,   \* EBUSY
       <<<<69, 65, 71, 65, 73, 78>>, "WouldBlock">>,   \* EAGAIN
       <<<<69, 73, 83, 67, 79, 78, 78>>, "AddrInUse">>,   \* EISCONN
       <<<<69, 50, 66, 73, 71>>, "InvalidData">>,   \* E2BIG
       <<<<69, 80, 69, 82, 77>>, "PermissionDenied">>    \* EPERM
    >>

\* Mutant of ErrorKindOf: a string that begins with a name of the table has
\* that name's kind.
ErrorKindOf_Prefix(e_string) ==
    LET hits == {i \in 1..Len(ErrorTable) :
                    /\ Len(ErrorTable[i][1]) <= Len(e_string)
                    /\ SubSeq(e_string, 1, Len(ErrorTable[i][1])) = ErrorTable[i][1]}
    IN IF hits # {} THEN ErrorTable[CHOOSE i \in hits : TRUE][2] ELSE "Other"

ErrorKindOf(e_string) ==
    IF \E i \in 1..Len(ErrorTable) : ErrorTable[i][1] = e_string
    THEN ErrorTable[CHOOSE i \in 1..Len(ErrorTable) : ErrorTable[i][1] = e_string][2]
    ELSE "Other"

\* XsMessage::parse_error; the assert_eq! on the kind panics.
parse_error(m) ==
    IF m.msg_type # "Error" THEN [panic |-> "Tried to parse non-error message"]
    ELSE LET r == parse_payload_str(m) IN
         IF r.ok /\ r.value[1] = "Some"
         THEN IoError(ErrorKindOf(r.value[2]), <<"XS interface error ", r.value[2]>>)
         ELSE IoError("Other", <<"Got invalid error code from error payload">>)

\* Mutant of TokioMatch: every response that is not an Error is a success.
TokioMatch_NoKindCheck(req_msg_type, response) ==
    IF response.msg_type = "Error" THEN Err(parse_error(response)) ELSE Ok(response)

\* The `match response.msg_type` that ends XsTokio::transmit_request.
TokioMatch(req_msg_type, response) ==
    IF response.msg_type = req_msg_type THEN Ok(response)
    ELSE IF response.msg_type = "Error" THEN Err(parse_error(response))
    ELSE Err(IoError("InvalidData", <<"Got unrelated response ", response.msg_type>>))

\* The `match response.msg_type` that ends XsUnix::transmit_request.
UnixMatch(request, response) ==
    IF response.msg_type = request.msg_type THEN Ok(response)
    ELSE IF response.msg_type = "Error" THEN Err(parse_error(response))
    ELSE Err(IoError("InvalidData", <<"Got unrelated response ", response.msg_type>>))

\* ------------------------------------------------------------------ codec
\* u32::to_ne_bytes and u32::from_ne_bytes, for the byte order of the host.
to_ne_bytes(val, endian) ==
    LET le == <<val % 256, (val \div 256) % 256, (val \div 65536) % 256,
                (val \div 16777216) % 256>>
    IN IF endian = "little" THEN le ELSE <<le[4], le[3], le[2], le[1]>>

from_ne_bytes(b, endian) ==
    IF endian = "little"
    THEN b[1] + 256 * b[2] + 65536 * b[3] + 16777216 * b[4]
    ELSE b[4] + 256 * b[3] + 65536 * b[2] + 16777216 * b[1]

\* `impl From<XsMessageType> for u32`.
FromTable ==
    <<
       <<"Control", 0>>, <<"Directory", 1>>, <<"Read", 2>>,
       <<"GetPerms", 3>>, <<"Watch", 4>>, <<"Unwatch", 5>>,
       <<"TransactionStart", 6>>, <<"TransactionEnd", 7>>, <<"Introduce", 8>>,
       <<"Release", 9>>, <<"GetDomainPath", 10>>, <<"Write", 11>>,
       <<"Mkdir", 12>>, <<"Rm", 13>>, <<"SetPerms", 14>>,
       <<"WatchEvent", 15>>, <<"Error", 16>>, <<"IsDomainIntroduced", 17>>,
       <<"Resume", 18>>, <<"SetTarget", 19>>, <<"ResetWatches", 21>>,
       <<"DirectoryPart", 22>>
    >>

MsgTypeToU32(msg_type) ==
    FromTable[CHOOSE i \in 1..Len(FromTable) : FromTable[i][1] = msg_type][2]

\* `msg_type as u32`: the discriminant of the variant, which for an enum
\* without explicit discriminants is its position in the declaration.
AsU32(msg_type) ==
    (CHOOSE i \in 1..Len(XsMessageType) : XsMessageType[i] = msg_type) - 1

\* `impl TryFrom<u32> for XsMessageType`.
TryFromTable ==
    <<
       <<0, "Control">>, <<1, "Directory">>, <<2, "Read">>,
       <<3, "GetPerms">>, <<4, "Watch">>, <<5, "Unwatch">>,
       <<6, "TransactionStart">>, <<7, "TransactionEnd">>, <<8, "Introduce">>,
       <<9, "Release">>, <<10, "GetDomainPath">>, <<11, "Write">>,
       <<12, "Mkdir">>, <<13, "Rm">>, <<14, "SetPerms">>,
       <<15, "WatchEvent">>, <<16, "Error">>, <<17, "IsDomainIntroduced">>,
       <<18, "Resume">>, <<19, "SetTarget">>, <<21, "ResetWatches">>,
       <<22, "DirectoryPart">>
    >>

\* Mutant of TryFromU32: the value is taken as the position in the declaration.
TryFromU32_ByPosition(value) ==
    IF value + 1 \in 1..Len(XsMessageType)
    THEN Ok(XsMessageType[value + 1])
    ELSE Err("UnknownMessageType")

TryFromU32(value) ==
    IF \E i \in 1..Len(TryFromTable) : TryFromTable[i][1] = value
    THEN Ok(TryFromTable[CHOOSE i \in 1..Len(TryFromTable) : TryFromTable[i][1] = value][2])
    ELSE Err("UnknownMessageType")

\* The 16 bytes of struct xsd_sockmsg as write_to / write_message_async build them.
Header(m, endian) ==
    to_ne_bytes(AsU32(m.msg_type), endian) \o to_ne_bytes(m.request_id, endian)
        \o to_ne_bytes(0, endian) \o to_ne_bytes(Len(m.payload), endian)

\* The outcome of an encoder: its result and the bytes the sink has taken.
\* A broken sink fails the first write_all and takes nothing.
Encoded(result, written) == [result |-> result, written |-> written]

\* Mutant of write_to: the check the error text of wire.rs:180 describes (>=).
write_to_GreaterEqual(m, endian, sink) ==
    IF Len(m.payload) >= XENSTORE_PAYLOAD_MAX
    THEN Encoded(Err(IoError("InvalidData", <<"Payload is too large">>)), <<>>)
    ELSE IF sink = "broken"
    THEN Encoded(Err(IoError("BrokenPipe", <<>>)), <<>>)
    ELSE Encoded(Ok(<<>>), Header(m, endian) \o m.payload)

\* XsMessage::write_to.
write_to(m, endian, sink) ==
    IF Len(m.payload) > XENSTORE_PAYLOAD_MAX
    THEN Encoded(Err(IoError("InvalidData", <<"Payload is too large">>)), <<>>)
    ELSE IF sink = "broken"
    THEN Encoded(Err(IoError("BrokenPipe", <<>>)), <<>>)
    ELSE Encoded(Ok(<<>>), Header(m, endian) \o m.payload)

\* XsMessage::write_message_async.
write_message_async(m, endian, sink) ==
    IF Len(m.payload) > XENSTORE_PAYLOAD_MAX
    THEN Encoded(Err(IoError("InvalidData", <<"Payload is too large">>)), <<>>)
    ELSE IF sink = "broken"
    THEN Encoded(Err(IoError("BrokenPipe", <<>>)), <<>>)
    ELSE Encoded(Ok(<<>>), Header(m, endian) \o m.payload)

\* The decoders: read_exact of the header, the four u32, read_exact of `len`
\* payload bytes, then the conversion of the type.
Decode(bytes, endian) ==
    IF Len(bytes) < 16 THEN Err(IoError("UnexpectedEof", <<>>))
    ELSE LET msg_type == from_ne_bytes(SubSeq(bytes, 1, 4), endian)
             request_id == from_ne_bytes(SubSeq(bytes, 5, 8), endian)
             len == from_ne_bytes(SubSeq(bytes, 13, 16), endian)
         IN IF Len(bytes) < 16 + len THEN Err(IoError("UnexpectedEof", <<>>))
            ELSE IF ~TryFromU32(msg_type).ok
            THEN Err(IoError("Unsupported", <<"Got unknown message type">>))
            ELSE Ok(XsMessage(TryFromU32(msg_type).value, request_id,
                              SubSeq(bytes, 17, 16 + len)))

\* XsMessage::read_from.
read_from(bytes, endian) == Decode(bytes, endian)

\* XsMessage::read_message_async.
read_message_async(bytes, endian) == Decode(bytes, endian)

\* ------------------------------------------------------------------ string lists
\* The chunks of `payload.split_inclusive(|&c| c == 0)`: each ends with its
\* NUL, but for the last one when the payload does not end with a NUL; an
\* empty payload has no chunk.
RECURSIVE split_inclusive(_)
split_inclusive(payload) ==
    IF payload = <<>> THEN <<>>
    ELSE LET nuls == {k \in 1..Len(payload) : payload[k] = NUL} IN
         IF nuls = {} THEN <<payload>>
         ELSE <<SubSeq(payload, 1, SetMin(nuls))>>
                  \o split_inclusive(SubSeq(payload, SetMin(nuls) + 1, Len(payload)))

\* Mutant of parse_payload_list: a last chunk without its NUL is left out.
parse_payload_list_TerminatedOnly(m) ==
    LET chunks == SelectSeq(split_inclusive(m.payload), LAMBDA c : c[Len(c)] = NUL)
        parsed == [i \in 1..Len(chunks) |-> parse_nul_string(chunks[i])]
        some == SelectSeq(parsed, LAMBDA r : r.ok /\ r.value[1] = "Some")
    IN IF \E i \in 1..Len(parsed) : ~parsed[i].ok THEN Err("Utf8Error")
       ELSE Ok([i \in 1..Len(some) |-> some[i].value[2]])

\* XsMessage::parse_payload_list: filter_map drops the chunks that are no
\* string, collect stops at the first error.
parse_payload_list(m) ==
    LET chunks == split_inclusive(m.payload)
        parsed == [i \in 1..Len(chunks) |-> parse_nul_string(chunks[i])]
        some == SelectSeq(parsed, LAMBDA r : r.ok /\ r.value[1] = "Some")
    IN IF \E i \in 1..Len(parsed) : ~parsed[i].ok THEN Err("Utf8Error")
       ELSE Ok([i \in 1..Len(some) |-> some[i].value[2]])

\* The payload the loop of XsMessage::from_string_slice builds: the bytes of
\* every string, each followed by a NUL.
RECURSIVE StringSlicePayload(_)
StringSlicePayload(strings) ==
    IF strings = <<>> THEN <<>>
    ELSE Head(strings) \o <<NUL>> \o StringSlicePayload(Tail(strings))

\* ------------------------------------------------------------------ Init
\* The tasks as launch_xenstore_task leaves them, with one handle.
MuxInit ==
    /\ pending_tasks = [i \in SlotIds |-> NoTask]
    /\ watch_subscribers = EmptyMap
    /\ task_count = 0
    /\ message_receiver = <<>>
    /\ request_channel = <<>>
    /\ response_channel = <<>>
    /\ mux_pc = "select"
    /\ mux_hold = NoHold
    /\ writer_alive = TRUE
    /\ reader_alive = TRUE
    /\ daemon_reqs = {}
    /\ handles = 1
    /\ next_op = 1
    /\ reply = [o \in Ops |-> RNone]
    /\ watch = [o \in Ops |-> "none"]
    /\ evbuf = [o \in Ops |-> <<>>]
    /\ bogus = 0
    /\ oversized = {}
    /\ yielded = [o \in Ops |-> <<>>]
    /\ handle_drops = 0

Init ==
    /\ MuxInit
    /\ arg = NoArg
    /\ res = NoRes

\* ------------------------------------------------------------------ client side
\* The multiplexer task still owns message_receiver.
ReceiverAlive == mux_pc # "ended"

LiveStreams == {o \in Ops : watch[o] = "live"}

\* A pending call borrows its handle (&self), so the handle outlives it.
Borrowed == \E o \in Ops : reply[o].st = "waiting"

\* Clone for XsTokio: one more sender of the command channel (at most
\* MaxHandles handles are ever made).
CloneHandle ==
    /\ handles >= 1
    /\ handles + handle_drops < MaxHandles
    /\ handles' = handles + 1
    /\ UNCHANGED <<muxState, message_receiver, request_channel, response_channel,
                   mux_pc, mux_hold, ioState, next_op, reply, watch, evbuf, bogus, aux>>

\* Mutant of DropHandle: dropping a clone closes the command channel for all.
DropHandle_ClosesChannel ==
    /\ handles >= 1
    /\ (handles > 1 \/ ~Borrowed)
    /\ handles' = 0
    /\ handle_drops' = handle_drops + 1
    /\ UNCHANGED <<muxState, message_receiver, request_channel, response_channel,
                   mux_pc, mux_hold, ioState, next_op, reply, watch, evbuf, bogus,
                   oversized, yielded, arg, res>>

\* A handle is dropped: one sender of the command channel less.
DropHandle ==
    /\ handles >= 1
    /\ (handles > 1 \/ ~Borrowed)
    /\ handles' = handles - 1
    /\ handle_drops' = handle_drops + 1
    /\ UNCHANGED <<muxState, message_receiver, request_channel, response_channel,
                   mux_pc, mux_hold, ioState, next_op, reply, watch, evbuf, bogus,
                   oversized, yielded, arg, res>>

\* mpsc send of a command: fails when the receiver is gone.
Submit(o, message) ==
    IF ReceiverAlive
    THEN /\ Len(message_receiver) < MaxQueue
         /\ message_receiver' = Append(message_receiver, message)
         /\ reply' = [reply EXCEPT ![o] = RWaiting(task_count = MAX_REQUEST_COUNT)]
    ELSE /\ reply' = [reply EXCEPT ![o] = RBrokenPipe]
         /\ UNCHANGED message_receiver

\* XsTokio::transmit_request, up to the await of the reply.
TransmitRequest ==
    /\ handles >= 1
    /\ next_op <= MaxOps
    /\ Submit(next_op, MsgRequest(from_string("Read", 0, next_op), next_op))
    /\ next_op' = next_op + 1
    /\ UNCHANGED <<muxState, request_channel, response_channel, mux_pc, mux_hold,
                   ioState, handles, watch, evbuf, bogus, aux>>

\* XsTokio::write with data too long for one message, up to the await of the reply.
TransmitOversized ==
    /\ handles >= 1
    /\ next_op <= MaxOps
    /\ Submit(next_op, MsgRequest(from_string_slice("Write", 0, <<next_op, BigData>>),
                                  next_op))
    /\ next_op' = next_op + 1
    /\ oversized' = oversized \cup {next_op}
    /\ UNCHANGED <<muxState, request_channel, response_channel, mux_pc, mux_hold,
                   ioState, handles, watch, evbuf, bogus, yielded, handle_drops, arg, res>>

\* XsTokio::watch, up to the await of the result.
WatchCall ==
    /\ handles >= 1
    /\ next_op <= MaxOps
    /\ Submit(next_op, MsgWatchSubscribe(next_op, next_op, next_op))
    /\ next_op' = next_op + 1
    /\ UNCHANGED <<muxState, request_channel, response_channel, mux_pc, mux_hold,
                   ioState, handles, watch, evbuf, bogus, aux>>

\* The caller drops the future of a pending call (its reply receiver, and for
\* watch() its event receiver too).
Abandon(o) ==
    /\ reply[o].st = "waiting"
    /\ reply' = [reply EXCEPT ![o] = RAbandoned]
    /\ UNCHANGED <<muxState, message_receiver, request_channel, response_channel,
                   mux_pc, mux_hold, ioState, handles, next_op, watch, evbuf, bogus, aux>>

\* Mutant of DropWatch: the stream goes without telling the multiplexer.
DropWatch_Silent(o) ==
    /\ watch[o] = "live"
    /\ watch' = [watch EXCEPT ![o] = "dropped"]
    /\ evbuf' = [evbuf EXCEPT ![o] = <<>>]
    /\ UNCHANGED <<muxState, message_receiver, request_channel, response_channel,
                   mux_pc, mux_hold, ioState, handles, next_op, reply, bogus, aux>>

\* Drop for XsTokioWatch.
DropWatch(o) ==
    /\ watch[o] = "live"
    /\ watch' = [watch EXCEPT ![o] = "dropped"]
    /\ evbuf' = [evbuf EXCEPT ![o] = <<>>]
    /\ IF ReceiverAlive
       THEN /\ Len(message_receiver) < MaxQueue
            /\ message_receiver' =
                   Append(message_receiver, MsgWatchUnsubscribe(reply[o].token))
       ELSE UNCHANGED message_receiver
    /\ UNCHANGED <<muxState, request_channel, response_channel, mux_pc, mux_hold,
                   ioState, handles, next_op, reply, bogus, aux>>

\* Stream::poll_next returning an item.
StreamNext(o) ==
    /\ watch[o] = "live"
    /\ evbuf[o] # <<>>
    /\ evbuf' = [evbuf EXCEPT ![o] = Tail(evbuf[o])]
    /\ UNCHANGED <<muxState, message_receiver, request_channel, response_channel,
                   mux_pc, mux_hold, ioState, handles, next_op, reply, watch, bogus, aux>>

\* Stream::poll_next returning an item, the item being recorded.
StreamNextLogged(o) ==
    /\ watch[o] = "live"
    /\ evbuf[o] # <<>>
    /\ Len(yielded[o]) < MaxYield
    /\ evbuf' = [evbuf EXCEPT ![o] = Tail(evbuf[o])]
    /\ yielded' = [yielded EXCEPT ![o] = Append(yielded[o], Head(evbuf[o]))]
    /\ UNCHANGED <<muxState, message_receiver, request_channel, response_channel,
                   mux_pc, mux_hold, ioState, handles, next_op, reply, watch, bogus,
                   oversized, handle_drops, arg, res>>

\* ------------------------------------------------------------------ multiplexer
\* The receiver of call o's event channel exists: the pending watch() future
\* holds it, then the XsTokioWatch.
EventReceiverAlive(o) == reply[o].st = "waiting" \/ watch[o] = "live"

\* A one-shot send: delivered when the receiver waits, discarded otherwise.
Deliver(rep, o, value) ==
    IF rep[o].st = "waiting" THEN [rep EXCEPT ![o] = value] ELSE rep

\* The one-shot sender a task or command owns (0: none).
TaskOwner(task) ==
    CASE task.kind = "Request" -> task.sender
      [] task.kind = "WatchSubscribe" -> task.result_channel
      [] OTHER -> 0

MessageOwner(message) ==
    CASE message.type = "Request" -> message.response_sender
      [] message.type = "WatchSubscribe" -> message.result_channel
      [] OTHER -> 0

\* Dropping one-shot senders unsent: their waiting receivers see an error.
DropSenders(rep, owners) ==
    [o \in Ops |-> IF o \in owners /\ rep[o].st = "waiting" THEN RBrokenPipe ELSE rep[o]]

\* Mutant of FindSlot: the first slot, free or not.
FindSlot_First(pt) == 0

\* process_message: the first free slot, in index order.
FindSlot(pt) ==
    LET free == {i \in SlotIds : pt[i].kind = "None"}
    IN IF free = {} THEN NoSlot ELSE SetMin(free)

\* find_suitable_token: any token that is not a key of the watch table.
find_suitable_token(ws) == Tokens \ DOMAIN ws

\* Mutant of RequestWithId: the req_id the handle wrote is kept.
RequestWithId_Keep(request, req_id) == request

\* process_message: the request leaves with the slot index as its req_id.
RequestWithId(request, req_id) == [request EXCEPT !.request_id = req_id]

\* Mutant of ParkTask: the task is parked and not counted.
ParkTask_NoCount(req_id, task) ==
    /\ pending_tasks' = [pending_tasks EXCEPT ![req_id] = task]
    /\ task_count' = task_count

\* `*slot = Some(task); self.task_count += 1`
ParkTask(req_id, task) ==
    /\ pending_tasks' = [pending_tasks EXCEPT ![req_id] = task]
    /\ task_count' = task_count + 1

\* A failed `request_channel.send(..).await?`: the command is dropped, nothing is parked.
SendFailed(task) ==
    /\ reply' = DropSenders(reply, {TaskOwner(task)})
    /\ UNCHANGED <<pending_tasks, task_count, request_channel>>

\* `self.request_channel.send(msg).await?` followed by parking the task.
RequestChannelSend(req_id, msg, task) ==
    IF ~writer_alive
    THEN /\ SendFailed(task)
         /\ mux_pc' = "select"
         /\ mux_hold' = NoHold
    ELSE IF Len(request_channel) < CHANNEL_CAP
    THEN /\ request_channel' = Append(request_channel, msg)
         /\ ParkTask(req_id, task)
         /\ mux_pc' = "select"
         /\ mux_hold' = NoHold
         /\ UNCHANGED reply
    ELSE /\ mux_pc' = "send_request"
         /\ mux_hold' = [what |-> "request", req_id |-> req_id, msg |-> msg, task |-> task]
         /\ UNCHANGED <<pending_tasks, task_count, request_channel, reply>>

\* bail!: the command is consumed and dropped.
Bail(message) ==
    /\ reply' = DropSenders(reply, {MessageOwner(message)})
    /\ UNCHANGED <<pending_tasks, task_count, request_channel, mux_pc, mux_hold>>

\* Mutant of process_message: an Unwatch is sent for a token the table lacks.
process_message_UnwatchUnknown(message) ==
    LET req_id == FindSlot(pending_tasks) IN
    IF req_id = NoSlot THEN Bail(message)
    ELSE CASE message.type = "Request" ->
                RequestChannelSend(req_id, RequestWithId(message.request, req_id),
                                   TaskRequest(message.response_sender))
           [] message.type = "WatchSubscribe" ->
                \E token \in find_suitable_token(watch_subscribers) :
                    RequestChannelSend(req_id,
                        from_string_slice("Watch", req_id, <<message.path, token>>),
                        TaskWatchSubscribe(message.path, message.event_sender,
                                           message.result_channel, token))
           [] message.type = "WatchUnsubscribe" ->
                RequestChannelSend(req_id,
                    from_string_slice("Unwatch", req_id,
                        <<IF message.token \in DOMAIN watch_subscribers
                          THEN watch_subscribers[message.token].path ELSE 0,
                          message.token>>),
                    TaskWatchUnsubscribe(message.token))

\* Mutant of process_message: the Unwatch message is built without the path.
process_message_UnwatchNoPath(message) ==
    LET req_id == FindSlot(pending_tasks) IN
    IF req_id = NoSlot THEN Bail(message)
    ELSE CASE message.type = "Request" ->
                RequestChannelSend(req_id, RequestWithId(message.request, req_id),
                                   TaskRequest(message.response_sender))
           [] message.type = "WatchSubscribe" ->
                \E token \in find_suitable_token(watch_subscribers) :
                    RequestChannelSend(req_id,
                        from_string_slice("Watch", req_id, <<message.path, token>>),
                        TaskWatchSubscribe(message.path, message.event_sender,
                                           message.result_channel, token))
           [] message.type = "WatchUnsubscribe" ->
                IF message.token \notin DOMAIN watch_subscribers
                THEN Bail(message)
                ELSE RequestChannelSend(req_id,
                        from_string_slice("Unwatch", req_id, <<0, message.token>>),
                        TaskWatchUnsubscribe(message.token))

process_message(message) ==
    LET req_id == FindSlot(pending_tasks) IN
    IF req_id = NoSlot THEN Bail(message)
    ELSE CASE message.type = "Request" ->
                RequestChannelSend(req_id, RequestWithId(message.request, req_id),
                                   TaskRequest(message.response_sender))
           [] message.type = "WatchSubscribe" ->
                \E token \in find_suitable_token(watch_subscribers) :
                    RequestChannelSend(req_id,
                        from_string_slice("Watch", req_id, <<message.path, token>>),
                        TaskWatchSubscribe(message.path, message.event_sender,
                                           message.result_channel, token))
           [] message.type = "WatchUnsubscribe" ->
                IF message.token \notin DOMAIN watch_subscribers
                THEN Bail(message)
                ELSE RequestChannelSend(req_id,
                        from_string_slice("Unwatch", req_id,
                            <<watch_subscribers[message.token].path, message.token>>),
                        TaskWatchUnsubscribe(message.token))

\* Mutant of RunMessage: commands are polled whatever task_count is.
RunMessage_NoBackpressure ==
    /\ mux_pc = "select"
    /\ message_receiver # <<>>
    /\ message_receiver' = Tail(message_receiver)
    /\ process_message(Head(message_receiver))
    /\ UNCHANGED <<watch_subscribers, response_channel, ioState, handles, next_op,
                   watch, evbuf, bogus, aux>>

\* Mutant of RunMessage: the newest command is taken, not the oldest.
RunMessage_TakesLast ==
    /\ mux_pc = "select"
    /\ task_count # MAX_REQUEST_COUNT
    /\ message_receiver # <<>>
    /\ message_receiver' = SubSeq(message_receiver, 1, Len(message_receiver) - 1)
    /\ process_message(message_receiver[Len(message_receiver)])
    /\ UNCHANGED <<watch_subscribers, response_channel, ioState, handles, next_op,
                   watch, evbuf, bogus, aux>>

\* run: the select! branch that receives a command (only when a slot is free).
RunMessage ==
    /\ mux_pc = "select"
    /\ task_count # MAX_REQUEST_COUNT
    /\ message_receiver # <<>>
    /\ message_receiver' = Tail(message_receiver)
    /\ process_message(Head(message_receiver))
    /\ UNCHANGED <<watch_subscribers, response_channel, ioState, handles, next_op,
                   watch, evbuf, bogus, aux>>

\* The multiplexer resumes from a suspended request_channel.send.
ResumeSendRequest ==
    /\ mux_pc = "send_request"
    /\ (~writer_alive \/ Len(request_channel) < CHANNEL_CAP)
    /\ RequestChannelSend(mux_hold.req_id, mux_hold.msg, mux_hold.task)
    /\ UNCHANGED <<watch_subscribers, message_receiver, response_channel, ioState,
                   handles, next_op, watch, evbuf, bogus, aux>>

\* Mutant of EventSend: a closed sink empties the watch table.
EventSend_RemoveAll(value, uuid) ==
    LET sink == watch_subscribers[uuid].channel IN
    IF ~EventReceiverAlive(sink)
    THEN /\ watch_subscribers' = EmptyMap
         /\ mux_pc' = "select"
         /\ mux_hold' = NoHold
         /\ UNCHANGED evbuf
    ELSE IF Len(evbuf[sink]) < EVENT_CAP
    THEN /\ evbuf' = [evbuf EXCEPT ![sink] = Append(evbuf[sink], value)]
         /\ mux_pc' = "select"
         /\ mux_hold' = NoHold
         /\ UNCHANGED watch_subscribers
    ELSE /\ mux_pc' = "send_event"
         /\ mux_hold' = [what |-> "event", value |-> value, uuid |-> uuid]
         /\ UNCHANGED <<watch_subscribers, evbuf>>

\* Mutant of EventSend: try_send, the value is dropped when the channel is full.
EventSend_TrySend(value, uuid) ==
    LET sink == watch_subscribers[uuid].channel IN
    /\ mux_pc' = "select"
    /\ mux_hold' = NoHold
    /\ IF ~EventReceiverAlive(sink)
       THEN watch_subscribers' = MapRemove(watch_subscribers, uuid) /\ UNCHANGED evbuf
       ELSE /\ evbuf' = IF Len(evbuf[sink]) < EVENT_CAP
                        THEN [evbuf EXCEPT ![sink] = Append(evbuf[sink], value)]
                        ELSE evbuf
            /\ UNCHANGED watch_subscribers

\* `subscriber.channel.send(value).await` of process_watch_entry.
EventSend(value, uuid) ==
    LET sink == watch_subscribers[uuid].channel IN
    IF ~EventReceiverAlive(sink)
    THEN /\ watch_subscribers' = MapRemove(watch_subscribers, uuid)
         /\ mux_pc' = "select"
         /\ mux_hold' = NoHold
         /\ UNCHANGED evbuf
    ELSE IF Len(evbuf[sink]) < EVENT_CAP
    THEN /\ evbuf' = [evbuf EXCEPT ![sink] = Append(evbuf[sink], value)]
         /\ mux_pc' = "select"
         /\ mux_hold' = NoHold
         /\ UNCHANGED watch_subscribers
    ELSE /\ mux_pc' = "send_event"
         /\ mux_hold' = [what |-> "event", value |-> value, uuid |-> uuid]
         /\ UNCHANGED <<watch_subscribers, evbuf>>

\* A token text that is no UUID.
NotUuid == 0

\* Uuid::try_parse succeeds: the token texts of Tokens are the UUIDs.
UuidTryParse(token) == token \in Tokens

\* Mutant of process_watch_entry: the slot the event's req_id names is freed.
process_watch_entry_FreesSlot(msg) ==
    /\ IF Len(msg.payload) # 2
       THEN UNCHANGED <<watch_subscribers, evbuf, mux_pc, mux_hold>>
       ELSE LET value == msg.payload[1]
                token == msg.payload[2]
            IN IF UuidTryParse(token) /\ token \in DOMAIN watch_subscribers
               THEN EventSend(value, token)
               ELSE UNCHANGED <<watch_subscribers, evbuf, mux_pc, mux_hold>>
    /\ IF msg.request_id \in SlotIds /\ pending_tasks[msg.request_id].kind # "None"
       THEN /\ pending_tasks' = [pending_tasks EXCEPT ![msg.request_id] = NoTask]
            /\ task_count' = task_count - 1
       ELSE UNCHANGED <<pending_tasks, task_count>>
    /\ UNCHANGED <<reply, watch>>

\* Mutant of process_watch_entry: an event whose token is not in the table is
\* buffered for the pending subscription that will carry the token.
process_watch_entry_PendingToo(msg) ==
    /\ IF Len(msg.payload) # 2
       THEN UNCHANGED <<watch_subscribers, evbuf, mux_pc, mux_hold>>
       ELSE LET value == msg.payload[1]
                token == msg.payload[2]
                slots == {i \in DOMAIN pending_tasks :
                             /\ pending_tasks[i].kind = "WatchSubscribe"
                             /\ pending_tasks[i].token = token}
            IN IF ~UuidTryParse(token)
               THEN UNCHANGED <<watch_subscribers, evbuf, mux_pc, mux_hold>>
               ELSE IF token \in DOMAIN watch_subscribers
               THEN EventSend(value, token)
               ELSE /\ evbuf' = [o \in DOMAIN evbuf |->
                                   IF /\ \E i \in slots : pending_tasks[i].channel = o
                                      /\ Len(evbuf[o]) < EVENT_CAP
                                   THEN Append(evbuf[o], value) ELSE evbuf[o]]
                    /\ UNCHANGED <<watch_subscribers, mux_pc, mux_hold>>
    /\ UNCHANGED <<pending_tasks, task_count, reply, watch>>

\* process_watch_entry: the event goes to the sink the watch table holds for
\* its token; an event with a malformed payload or an unknown token is dropped.
process_watch_entry(msg) ==
    /\ IF Len(msg.payload) # 2
       THEN UNCHANGED <<watch_subscribers, evbuf, mux_pc, mux_hold>>
       ELSE LET value == msg.payload[1]
                token == msg.payload[2]
            IN IF ~UuidTryParse(token)
               THEN UNCHANGED <<watch_subscribers, evbuf, mux_pc, mux_hold>>
               ELSE IF token \in DOMAIN watch_subscribers
               THEN EventSend(value, token)
               ELSE UNCHANGED <<watch_subscribers, evbuf, mux_pc, mux_hold>>
    /\ UNCHANGED <<pending_tasks, task_count, reply, watch>>

\* Mutant of RejectResponse: the counter is decremented before the slot is looked at.
RejectResponse_Decrement ==
    /\ task_count' = task_count - 1
    /\ UNCHANGED <<pending_tasks, watch_subscribers, reply, watch>>

\* Mutant of RejectResponse: the rejection empties the watch table.
RejectResponse_DropsWatches ==
    /\ watch_subscribers' = EmptyMap
    /\ UNCHANGED <<pending_tasks, task_count, reply, watch>>

\* The response is rejected before any slot is taken.
RejectResponse ==
    UNCHANGED <<pending_tasks, task_count, watch_subscribers, reply, watch>>

\* Mutant of TakeTask: the slot of a caller that went away is left alone.
TakeTask_KeepAbandoned(req_id) ==
    IF TaskOwner(pending_tasks[req_id]) \in Ops
       /\ reply[TaskOwner(pending_tasks[req_id])].st = "abandoned"
    THEN UNCHANGED <<pending_tasks, task_count>>
    ELSE /\ pending_tasks' = [pending_tasks EXCEPT ![req_id] = NoTask]
         /\ task_count' = task_count - 1

\* Mutant of TakeTask: the slot is read and counted out, and the task stays in it.
TakeTask_KeepsTask(req_id) ==
    /\ pending_tasks' = pending_tasks
    /\ task_count' = task_count - 1

\* `slot.take()` and `self.task_count -= 1`
TakeTask(req_id) ==
    /\ pending_tasks' = [pending_tasks EXCEPT ![req_id] = NoTask]
    /\ task_count' = task_count - 1

\* Mutant of WatchSubscribeResponse: a response of another kind than Watch
\* and Error is reported as the daemon's error.
WatchSubscribeResponse_OtherIsError(task, response) ==
    IF response.msg_type = "Watch"
    THEN /\ watch_subscribers' = MapInsert(watch_subscribers, task.token,
                                     WatchSubscriberInfo(task.channel, task.path))
         /\ reply' = Deliver(reply, task.result_channel, ROk(task.token))
         /\ watch' = IF reply[task.result_channel].st = "waiting"
                     THEN [watch EXCEPT ![task.result_channel] = "live"]
                     ELSE watch
    ELSE /\ reply' = Deliver(reply, task.result_channel, RErr("daemon"))
         /\ UNCHANGED <<watch_subscribers, watch>>

\* Mutant of WatchSubscribeResponse: the subscriber is inserted whatever the kind.
WatchSubscribeResponse_InsertAlways(task, response) ==
    /\ watch_subscribers' = MapInsert(watch_subscribers, task.token,
                                WatchSubscriberInfo(task.channel, task.path))
    /\ reply' = Deliver(reply, task.result_channel,
                        IF response.msg_type = "Watch" THEN ROk(task.token)
                        ELSE RErr("daemon"))
    /\ watch' = IF reply[task.result_channel].st = "waiting" /\ response.msg_type = "Watch"
                THEN [watch EXCEPT ![task.result_channel] = "live"]
                ELSE watch

\* The reply of a WatchSubscribe task and the table it leaves.
WatchSubscribeResponse(task, response) ==
    CASE response.msg_type = "Watch" ->
            /\ watch_subscribers' = MapInsert(watch_subscribers, task.token,
                                        WatchSubscriberInfo(task.channel, task.path))
            /\ reply' = Deliver(reply, task.result_channel, ROk(task.token))
            /\ watch' = IF reply[task.result_channel].st = "waiting"
                        THEN [watch EXCEPT ![task.result_channel] = "live"]
                        ELSE watch
      [] response.msg_type = "Error" ->
            /\ reply' = Deliver(reply, task.result_channel, RErr("daemon"))
            /\ UNCHANGED <<watch_subscribers, watch>>
      [] OTHER ->
            /\ reply' = Deliver(reply, task.result_channel, RErr("InvalidData"))
            /\ UNCHANGED <<watch_subscribers, watch>>

\* Mutant of WatchUnsubscribeResponse: the table is left as it is.
WatchUnsubscribeResponse_Keep(task, response) ==
    UNCHANGED <<watch_subscribers, reply, watch>>

\* Mutant of WatchUnsubscribeResponse: the token is removed whatever the kind.
WatchUnsubscribeResponse_RemoveAlways(task, response) ==
    /\ watch_subscribers' = MapRemove(watch_subscribers, task.token)
    /\ UNCHANGED <<reply, watch>>

\* The table a WatchUnsubscribe task leaves (an Error or another kind is an
\* error returned to run, which logs it).
WatchUnsubscribeResponse(task, response) ==
    /\ IF response.msg_type = "Unwatch"
       THEN watch_subscribers' = MapRemove(watch_subscribers, task.token)
       ELSE UNCHANGED watch_subscribers
    /\ UNCHANGED <<reply, watch>>

process_response(response) ==
    IF response.msg_type = "WatchEvent"
    THEN process_watch_entry(response)
    ELSE /\ UNCHANGED <<evbuf, mux_pc, mux_hold>>
         /\ IF response.request_id \notin SlotIds
            THEN RejectResponse
            ELSE LET task == pending_tasks[response.request_id] IN
                 IF task.kind = "None"
                 THEN RejectResponse
                 ELSE /\ TakeTask(response.request_id)
                      /\ CASE task.kind = "Request" ->
                                /\ reply' = Deliver(reply, task.sender, RMsg(response))
                                /\ UNCHANGED <<watch_subscribers, watch>>
                           [] task.kind = "WatchSubscribe" ->
                                WatchSubscribeResponse(task, response)
                           [] task.kind = "WatchUnsubscribe" ->
                                WatchUnsubscribeResponse(task, response)

\* run: a message of the reader is received (both branches of the loop).
RunResponse ==
    /\ mux_pc = "select"
    /\ response_channel # <<>>
    /\ response_channel' = Tail(response_channel)
    /\ process_response(Head(response_channel))
    /\ UNCHANGED <<message_receiver, request_channel, ioState, handles, next_op, bogus, aux>>

\* The multiplexer resumes from a suspended event send.
ResumeSendEvent ==
    /\ mux_pc = "send_event"
    /\ \/ ~EventReceiverAlive(watch_subscribers[mux_hold.uuid].channel)
       \/ Len(evbuf[watch_subscribers[mux_hold.uuid].channel]) < EVENT_CAP
    /\ EventSend(mux_hold.value, mux_hold.uuid)
    /\ UNCHANGED <<pending_tasks, task_count, message_receiver, request_channel,
                   response_channel, ioState, handles, next_op, reply, watch, bogus, aux>>

\* response_channel.recv() yields None: the reader is gone and nothing is buffered.
ResponseClosed == ~reader_alive /\ response_channel = <<>>

\* message_receiver.recv() yields None: no sender (handle or stream) is left.
MessageClosed == handles = 0 /\ LiveStreams = {} /\ message_receiver = <<>>

\* run: when the loop breaks.
RunBreakCondition ==
    IF task_count = MAX_REQUEST_COUNT
    THEN ResponseClosed
    ELSE ResponseClosed /\ MessageClosed

\* The one-shot senders the state owns when it is dropped.
OwnedSenders ==
    {TaskOwner(pending_tasks[i]) : i \in SlotIds}
        \cup {MessageOwner(message_receiver[k]) : k \in 1..Len(message_receiver)}

\* Mutant of RunBreak: the loop ends and the state (with its senders) is kept.
RunBreak_Leak ==
    /\ mux_pc = "select"
    /\ RunBreakCondition
    /\ mux_pc' = "ended"
    /\ UNCHANGED <<muxState, message_receiver, request_channel, response_channel,
                   mux_hold, ioState, clientState, bogus, aux>>

\* run breaks; the task ends and its XsTokioState is dropped.
RunBreak ==
    /\ mux_pc = "select"
    /\ RunBreakCondition
    /\ mux_pc' = "ended"
    /\ reply' = DropSenders(reply, OwnedSenders)
    /\ pending_tasks' = [i \in SlotIds |-> NoTask]
    /\ task_count' = 0
    /\ watch_subscribers' = EmptyMap
    /\ message_receiver' = <<>>
    /\ response_channel' = <<>>
    /\ UNCHANGED <<request_channel, mux_hold, ioState, handles, next_op, watch, evbuf, bogus, aux>>

\* ------------------------------------------------------------------ writer and reader tasks
\* The writer task writes the next message to the transport.
WriterWrite ==
    /\ writer_alive
    /\ request_channel # <<>>
    /\ PayloadLen(Head(request_channel).payload) <= XENSTORE_PAYLOAD_MAX
    /\ request_channel' = Tail(request_channel)
    /\ daemon_reqs' = daemon_reqs \cup {Head(request_channel)}
    /\ UNCHANGED <<muxState, message_receiver, response_channel, mux_pc, mux_hold,
                   writer_alive, reader_alive, clientState, bogus, aux>>

\* write_message_async refuses a payload that is too large: the error is
\* logged, the writer task ends and drops request_rx.
WriterReject ==
    /\ writer_alive
    /\ request_channel # <<>>
    /\ PayloadLen(Head(request_channel).payload) > XENSTORE_PAYLOAD_MAX
    /\ writer_alive' = FALSE
    /\ request_channel' = <<>>
    /\ UNCHANGED <<muxState, message_receiver, response_channel, mux_pc, mux_hold,
                   reader_alive, daemon_reqs, clientState, bogus, aux>>

\* write_message_async fails: the writer task ends and drops request_rx.
WriterFail ==
    /\ writer_alive
    /\ request_channel # <<>>
    /\ writer_alive' = FALSE
    /\ request_channel' = <<>>
    /\ UNCHANGED <<muxState, message_receiver, response_channel, mux_pc, mux_hold,
                   reader_alive, daemon_reqs, clientState, bogus, aux>>

\* The kinds a daemon may answer a request with: its own, Error, or another one.
ResponseTypes(m) ==
    {m.msg_type, "Error", IF m.msg_type = "Read" THEN "Rm" ELSE "Read"}

\* `response_tx.send(message).await` of the reader task.
ReaderPush(message) ==
    /\ reader_alive
    /\ mux_pc # "ended"
    /\ Len(response_channel) < CHANNEL_CAP
    /\ response_channel' = Append(response_channel, message)

\* The reader reads the daemon's response to one outstanding request.
ReaderResponse ==
    /\ \E m \in daemon_reqs : \E t \in ResponseTypes(m) :
          /\ ReaderPush(XsMessage(t, m.request_id, m.payload))
          /\ daemon_reqs' = daemon_reqs \ {m}
    /\ UNCHANGED <<muxState, message_receiver, request_channel, mux_pc, mux_hold,
                   writer_alive, reader_alive, clientState, bogus, aux>>

\* The reader reads an unsolicited watch event.
ReaderEvent ==
    /\ \E value \in EventVals : \E token \in Tokens :
          ReaderPush(from_string_slice("WatchEvent", 0, <<value, token>>))
    /\ UNCHANGED <<muxState, message_receiver, request_channel, mux_pc, mux_hold,
                   ioState, clientState, bogus, aux>>

\* The reader reads an unsolicited watch event, of a daemon that reports
\* several paths.
ReaderEventPaths ==
    /\ \E value \in 1..NumLoggedVals : \E token \in Tokens :
          ReaderPush(from_string_slice("WatchEvent", 0, <<value, token>>))
    /\ UNCHANGED <<muxState, message_receiver, request_channel, mux_pc, mux_hold,
                   ioState, clientState, bogus, aux>>

\* What a WatchEvent may carry besides a path and a token: one string, three
\* strings, nothing, or a token that is no UUID.
OddEventPayloads ==
    {<<v>> : v \in EventVals} \cup {<<v, t, v>> : v \in EventVals, t \in Tokens}
        \cup {<<>>} \cup {<<v, NotUuid>> : v \in EventVals}

\* The reader reads a watch event that is not as the daemon should send it:
\* its req_id is not zero (MAX_REQUEST_COUNT is out of range), or its payload
\* is not a path and a token.
ReaderOddEvent ==
    /\ bogus < MaxBogus
    /\ \E id \in 0..MAX_REQUEST_COUNT :
       \E p \in OddEventPayloads \cup {<<v, t>> : v \in EventVals, t \in Tokens} :
          /\ (id # 0 \/ p \in OddEventPayloads)
          /\ ReaderPush(XsMessage("WatchEvent", id, p))
    /\ bogus' = bogus + 1
    /\ UNCHANGED <<muxState, message_receiver, request_channel, mux_pc, mux_hold,
                   ioState, clientState, aux>>

\* The reader reads a response that answers no outstanding request.
ReaderBogus ==
    /\ bogus < MaxBogus
    /\ \E id \in 0..MAX_REQUEST_COUNT :
          /\ \A m \in daemon_reqs : m.request_id # id
          /\ ReaderPush(XsMessage("Read", id, <<0>>))
    /\ bogus' = bogus + 1
    /\ UNCHANGED <<muxState, message_receiver, request_channel, mux_pc, mux_hold,
                   ioState, clientState, aux>>

\* The reader reads a response of any kind but WatchEvent that answers no
\* request the daemon has; its req_id may be out of range (MAX_REQUEST_COUNT).
ReaderStray ==
    /\ bogus < MaxBogus
    /\ \E id \in 0..MAX_REQUEST_COUNT : \E t \in {"Read", "Watch", "Unwatch", "Error"} :
          /\ \A m \in daemon_reqs : m.request_id # id
          /\ ReaderPush(XsMessage(t, id, <<0>>))
    /\ bogus' = bogus + 1
    /\ UNCHANGED <<muxState, message_receiver, request_channel, mux_pc, mux_hold,
                   ioState, clientState, aux>>

\* read_message_async fails (or the multiplexer is gone): the reader task ends.
ReaderFail ==
    /\ reader_alive
    /\ reader_alive' = FALSE
    /\ UNCHANGED <<muxState, message_receiver, request_channel, response_channel,
                   mux_pc, mux_hold, writer_alive, daemon_reqs, clientState, bogus, aux>>

\* ------------------------------------------------------------------ specification
\* The multiplexer with a daemon that answers every request once, echoing its
\* req_id (any kind of answer, any order), emits watch events at will, and
\* whose transport may fail at any time.
Next ==
    \/ RunMessage
    \/ RunResponse
    \/ ResumeSendRequest
    \/ ResumeSendEvent
    \/ RunBreak
    \/ WriterWrite
    \/ WriterFail
    \/ ReaderResponse
    \/ ReaderEvent
    \/ ReaderFail
    \/ DropHandle
    \/ TransmitRequest
    \/ WatchCall
    \/ \E o \in Ops : Abandon(o)
    \/ \E o \in Ops : DropWatch(o)
    \/ \E o \in Ops : StreamNext(o)

Spec == Init /\ [][Next]_vars

\* The multiplexer with a daemon that also sends messages answering no
\* outstanding request, over a transport whose read side stays up.
NextDaemon ==
    \/ RunMessage
    \/ RunResponse
    \/ ResumeSendRequest
    \/ ResumeSendEvent
    \/ WriterWrite
    \/ WriterFail
    \/ ReaderResponse
    \/ ReaderEvent
    \/ ReaderBogus
    \/ TransmitRequest
    \/ WatchCall
    \/ \E o \in Ops : Abandon(o)
    \/ \E o \in Ops : DropWatch(o)
    \/ \E o \in Ops : StreamNext(o)

SpecDaemon == Init /\ [][NextDaemon]_vars

\* The multiplexer over a transport that never fails, with clients that also
\* write data too long for one message.
NextOversize ==
    \/ RunMessage
    \/ RunResponse
    \/ ResumeSendRequest
    \/ WriterWrite
    \/ WriterReject
    \/ ReaderResponse
    \/ TransmitRequest
    \/ TransmitOversized

SpecOversize == Init /\ [][NextOversize]_vars

\* Watch subscriptions over a transport that never fails, with what each
\* stream yields recorded.
NextEvents ==
    \/ RunMessage
    \/ RunResponse
    \/ ResumeSendRequest
    \/ ResumeSendEvent
    \/ WriterWrite
    \/ ReaderResponse
    \/ ReaderEventPaths
    \/ WatchCall
    \/ \E o \in Ops : StreamNextLogged(o)

SpecEvents == Init /\ [][NextEvents]_vars

\* ------------------------------------------------------------------ transmit_request's match
\* Error payloads: none, "ENOENT" NUL, "E2BIG" (no NUL), and an invalid one.
MatchPayloads ==
    {<<>>, ErrorTable[5][1] \o <<NUL>>, ErrorTable[15][1], <<BadByte, NUL>>}

InitMatch ==
    /\ MuxInit
    /\ arg \in [fn : {"transmit_request"}, req : MessageTypes,
                 response : {XsMessage(t, 0, p) : t \in MessageTypes, p \in MatchPayloads}]
    /\ res = NoRes

\* XsTokio::transmit_request returns, the response having been delivered.
TokioTransmitReturn ==
    /\ arg.fn = "transmit_request"
    /\ res = NoRes
    /\ res' = [is |-> "transmit_request", by |-> "tokio",
               value |-> TokioMatch(arg.req, arg.response)]
    /\ UNCHANGED <<taskVars, arg>>

\* XsUnix::transmit_request returns, the response having been read.
UnixTransmitReturn ==
    /\ arg.fn = "transmit_request"
    /\ res = NoRes
    /\ res' = [is |-> "transmit_request", by |-> "unix",
               value |-> UnixMatch(from_string(arg.req, 0, 1), arg.response)]
    /\ UNCHANGED <<taskVars, arg>>

NextMatch ==
    \/ TokioTransmitReturn
    \/ UnixTransmitReturn

SpecMatch == InitMatch /\ [][NextMatch]_vars

\* ------------------------------------------------------------------ encoders
\* A large u32: the values of the four-byte fields are taken up to 2^31 - 1,
\* the largest the model checker's integers hold.
BigU32 == 2147483647

RequestIds == {0, 1, 256, BigU32}

PayloadBytes == {NUL, 65}

\* The payloads of at most n bytes.
Payloads(n) == UNION {[1..k -> PayloadBytes] : k \in 0..n}

InitEncode ==
    /\ MuxInit
    /\ arg \in [fn : {"encode"},
                 msg : {XsMessage(t, id, p) : t \in MessageTypes, id \in RequestIds,
                                              p \in Payloads(XENSTORE_PAYLOAD_MAX + 1)},
                 endian : {"little", "big"},
                 sink : {"ok", "broken"}]
    /\ res = NoRes

\* XsMessage::write_to is called on the message.
WriteTo ==
    /\ arg.fn = "encode"
    /\ res = NoRes
    /\ res' = [is |-> "encode", by |-> "write_to",
               out |-> write_to(arg.msg, arg.endian, arg.sink)]
    /\ UNCHANGED <<taskVars, arg>>

\* XsMessage::write_message_async is called on the message.
WriteMessageAsync ==
    /\ arg.fn = "encode"
    /\ res = NoRes
    /\ res' = [is |-> "encode", by |-> "write_message_async",
               out |-> write_message_async(arg.msg, arg.endian, arg.sink)]
    /\ UNCHANGED <<taskVars, arg>>

\* XsMessage::read_from reads back what the encoder wrote.
ReadBack ==
    /\ res.is = "encode"
    /\ res.out.result.ok
    /\ res' = [is |-> "roundtrip", by |-> <<res.by, "read_from">>,
               value |-> read_from(res.out.written, arg.endian)]
    /\ UNCHANGED <<taskVars, arg>>

\* XsMessage::read_message_async reads back what the encoder wrote.
ReadBackAsync ==
    /\ res.is = "encode"
    /\ res.out.result.ok
    /\ res' = [is |-> "roundtrip", by |-> <<res.by, "read_message_async">>,
               value |-> read_message_async(res.out.written, arg.endian)]
    /\ UNCHANGED <<taskVars, arg>>

NextEncode ==
    \/ WriteTo
    \/ WriteMessageAsync
    \/ ReadBack
    \/ ReadBackAsync

SpecEncode == InitEncode /\ [][NextEncode]_vars

\* ------------------------------------------------------------------ decoders
\* The values of the header's type field a peer may send.
TypeValues == (0..MaxTypeValue) \cup {256, BigU32}

\* A byte stream: a header with any type, req_id and tx_id, a len field that
\* is the payload's length or one more (the stream ends early), the payload.
InitDecode ==
    /\ MuxInit
    /\ arg \in {[fn |-> "decode", type |-> n, id |-> id, len |-> Len(p) + more,
                  payload |-> p, endian |-> e,
                  bytes |-> to_ne_bytes(n, e) \o to_ne_bytes(id, e) \o to_ne_bytes(tx, e)
                              \o to_ne_bytes(Len(p) + more, e) \o p] :
                    n \in TypeValues, id \in {0, BigU32}, tx \in {0, 7}, more \in {0, 1},
                    p \in Payloads(MaxDecodeLen), e \in {"little", "big"}}
    /\ res = NoRes

\* XsMessage::read_from is called on the stream.
ReadFrom ==
    /\ arg.fn = "decode"
    /\ res = NoRes
    /\ res' = [is |-> "decode", by |-> "read_from", value |-> read_from(arg.bytes, arg.endian)]
    /\ UNCHANGED <<taskVars, arg>>

\* XsMessage::read_message_async is called on the stream.
ReadMessageAsync ==
    /\ arg.fn = "decode"
    /\ res = NoRes
    /\ res' = [is |-> "decode", by |-> "read_message_async",
               value |-> read_message_async(arg.bytes, arg.endian)]
    /\ UNCHANGED <<taskVars, arg>>

NextDecode ==
    \/ ReadFrom
    \/ ReadMessageAsync

SpecDecode == InitDecode /\ [][NextDecode]_vars

\* Byte streams whose payload is as long as the header says, of every length
\* up to XENSTORE_PAYLOAD_MAX + MaxExcess.
LongPayloads == {[k \in 1..n |-> 65] : n \in 0..(XENSTORE_PAYLOAD_MAX + MaxExcess)}

InitDecodeLong ==
    /\ MuxInit
    /\ arg \in {[fn |-> "decode", type |-> n, id |-> id, len |-> Len(p),
                  payload |-> p, endian |-> e,
                  bytes |-> to_ne_bytes(n, e) \o to_ne_bytes(id, e) \o to_ne_bytes(0, e)
                              \o to_ne_bytes(Len(p), e) \o p] :
                    n \in TypeValues, id \in {0, BigU32}, p \in LongPayloads,
                    e \in {"little", "big"}}
    /\ res = NoRes

SpecDecodeLong == InitDecodeLong /\ [][NextDecode]_vars

\* ------------------------------------------------------------------ parsing of string lists
\* The strings a caller passes: valid UTF-8 without NUL, of at most
\* MaxStrLen bytes, the empty string included.
Strings == UNION {[1..k -> {65, 66}] : k \in 0..MaxStrLen}

\* The non-empty lists of at most MaxListLen strings.
StringLists == UNION {[1..n -> Strings] : n \in 1..MaxListLen}

InitList ==
    /\ MuxInit
    /\ arg \in [fn : {"list"}, strings : StringLists]
    /\ res = NoRes

\* A payload is built from the list with from_string_slice and parsed with
\* parse_payload_list.
BuildAndParse ==
    /\ arg.fn = "list"
    /\ res = NoRes
    /\ LET m == XsMessage("Directory", 0, StringSlicePayload(arg.strings)) IN
       res' = [is |-> "list", nul |-> TRUE, payload |-> m.payload,
               value |-> parse_payload_list(m)]
    /\ UNCHANGED <<taskVars, arg>>

\* The same payload, sent by a peer that leaves out the NUL of the last
\* element, is parsed with parse_payload_list.
ParseWithoutLastNul ==
    /\ arg.fn = "list"
    /\ res = NoRes
    /\ LET full == StringSlicePayload(arg.strings)
           m == XsMessage("Directory", 0, SubSeq(full, 1, Len(full) - 1))
       IN res' = [is |-> "list", nul |-> FALSE, payload |-> m.payload,
                  value |-> parse_payload_list(m)]
    /\ UNCHANGED <<taskVars, arg>>

NextList ==
    \/ BuildAndParse
    \/ ParseWithoutLastNul

SpecList == InitList /\ [][NextList]_vars

\* ------------------------------------------------------------------ error translation
\* The strings a daemon may put in an Error message: the names of the table,
\* each also cut by one byte, longer by one byte and in lower case at its
\* start, the empty string, and one that is not UTF-8.
ErrorStrings ==
    UNION {{ErrorTable[i][1],
            SubSeq(ErrorTable[i][1], 1, Len(ErrorTable[i][1]) - 1),
            ErrorTable[i][1] \o <<88>>,
            <<101>> \o Tail(ErrorTable[i][1])} : i \in 1..Len(ErrorTable)}
        \cup {<<>>, <<BadByte>>}

\* An Error message whose payload is the string, with its NUL or without.
InitError ==
    /\ MuxInit
    /\ arg \in {[fn |-> "parse_error", name |-> n, nul |-> z,
                  msg |-> XsMessage("Error", 0, n \o (IF z THEN <<NUL>> ELSE <<>>))] :
                    n \in ErrorStrings, z \in BOOLEAN}
    /\ res = NoRes

\* XsMessage::parse_error is called on the message.
ParseError ==
    /\ arg.fn = "parse_error"
    /\ res = NoRes
    /\ res' = [is |-> "parse_error", value |-> parse_error(arg.msg)]
    /\ UNCHANGED <<taskVars, arg>>

NextError == ParseError

SpecError == InitError /\ [][NextError]_vars

\* ------------------------------------------------------------------ clones
\* Requests made through clones of the handle, which come and go, over a
\* transport whose read side may fail.
NextClones ==
    \/ RunMessage
    \/ RunResponse
    \/ ResumeSendRequest
    \/ RunBreak
    \/ WriterWrite
    \/ ReaderResponse
    \/ ReaderFail
    \/ CloneHandle
    \/ DropHandle
    \/ TransmitRequest

SpecClones == Init /\ [][NextClones]_vars

\* ------------------------------------------------------------------ watch events
\* Subscriptions made, abandoned and dropped, with a daemon that sends watch
\* events at will, some of them with a req_id or a payload they should not
\* have, over a transport that never fails.
NextWatchEvents ==
    \/ RunMessage
    \/ RunResponse
    \/ ResumeSendRequest
    \/ ResumeSendEvent
    \/ WriterWrite
    \/ ReaderResponse
    \/ ReaderEvent
    \/ ReaderOddEvent
    \/ WatchCall
    \/ \E o \in Ops : Abandon(o)
    \/ \E o \in Ops : DropWatch(o)
    \/ \E o \in Ops : StreamNext(o)

SpecWatchEvents == Init /\ [][NextWatchEvents]_vars

\* ------------------------------------------------------------------ stray responses
\* Requests and subscriptions with a daemon that also sends responses, of
\* any kind, that answer no request it has, over a transport that never fails.
NextStray ==
    \/ RunMessage
    \/ RunResponse
    \/ ResumeSendRequest
    \/ WriterWrite
    \/ ReaderResponse
    \/ ReaderStray
    \/ TransmitRequest
    \/ WatchCall

SpecStray == Init /\ [][NextStray]_vars

\* ------------------------------------------------------------------ properties
Last(q) == q[Len(q)]

IsPrefix(p, q) == Len(p) <= Len(q) /\ \A k \in 1..Len(p) : p[k] = q[k]

OccupiedSlots == {i \in SlotIds : pending_tasks[i].kind # "None"}

\* The multiplexer takes the head of the response channel in this step.
TakesResponse == mux_pc = "select" /\ response_channel # <<>>
                    /\ response_channel' = Tail(response_channel)

\* The multiplexer takes the head of the command channel in this step.
TakesMessage == mux_pc = "select" /\ message_receiver # <<>> /\ mux_pc' # "ended"
                    /\ message_receiver' = Tail(message_receiver)

\* The message the multiplexer hands (or is about to hand) to the writer in this step.
HandsToWriter(m) ==
    \/ mux_pc' = "send_request" /\ mux_hold'.msg = m
    \/ mux_pc' = "select" /\ request_channel' = Append(request_channel, m)

\* The steps the multiplexer task can take by itself.
MuxStep == RunMessage \/ RunResponse \/ ResumeSendRequest \/ ResumeSendEvent \/ RunBreak

\* An event sender of call o's channel exists (in a command, a task or the table).
EventSenderExists(o) ==
    \/ \E k \in 1..Len(message_receiver) :
          message_receiver[k].type = "WatchSubscribe" /\ message_receiver[k].event_sender = o
    \/ \E i \in SlotIds :
          pending_tasks[i].kind = "WatchSubscribe" /\ pending_tasks[i].channel = o
    \/ mux_pc = "send_request" /\ mux_hold.task.kind = "WatchSubscribe"
          /\ mux_hold.task.channel = o
    \/ \E t \in DOMAIN watch_subscribers : watch_subscribers[t].channel = o

\* C1: with a daemon that answers each request once and echoes its req_id, in
\* any order, a response delivered to a caller's reply channel is the response
\* to that caller's own request (a request's payload names its call, and the
\* daemon's answer carries it back), never the response to another's.
C1_OwnResponse ==
    \A o \in Ops : reply[o].st = "msg" => reply[o].msg.payload = <<o>>

\* Two requests were outstanding together (slots 0 and 1) and the second was
\* answered first.
C1_Witness ==
    /\ reply[1].st = "waiting"
    /\ pending_tasks[0].kind = "Request" /\ pending_tasks[0].sender = 1
    /\ reply[2].st = "msg" /\ reply[2].msg.request_id = 1 /\ reply[2].msg.payload = <<2>>

\* C2, the requests on their way (to the writer, at the daemon, answered and not
\* yet processed) that carry req_id i.
OutstandingWithId(i) ==
    Cardinality({k \in 1..Len(request_channel) : request_channel[k].request_id = i})
  + Cardinality({m \in daemon_reqs : m.request_id = i})
  + Cardinality({k \in 1..Len(response_channel) :
                    response_channel[k].msg_type # "WatchEvent"
                    /\ response_channel[k].request_id = i})

C2_DistinctIds ==
    mux_pc # "ended" =>
        \A i \in SlotIds :
            /\ OutstandingWithId(i) <= 1
            /\ OutstandingWithId(i) = 1 => i \in OccupiedSlots

C2_IdIsSlot ==
    \A i \in SlotIds :
        (pending_tasks[i].kind = "None" /\ pending_tasks'[i].kind # "None") =>
            /\ Len(request_channel') = Len(request_channel) + 1
            /\ Last(request_channel').request_id = i

C2_FreedAtOnce ==
    (TakesResponse /\ Head(response_channel).msg_type # "WatchEvent"
        /\ Head(response_channel).request_id \in OccupiedSlots) =>
        /\ pending_tasks'[Head(response_channel).request_id].kind = "None"
        /\ task_count' < MAX_REQUEST_COUNT
        /\ FindSlot(pending_tasks') <= Head(response_channel).request_id
        /\ FindSlot(pending_tasks') # NoSlot

\* C2: the req_id a command leaves with is the index of the slot its task is
\* parked in; the req_ids of the outstanding requests are pairwise distinct
\* and each names an occupied slot; processing the response for id i frees
\* slot i in that same step, so that the next command can be given it.
C2_SlotIsReqId ==
    [](C2_DistinctIds) /\ [][C2_IdIsSlot /\ C2_FreedAtOnce]_vars

\* Call 1 was answered on id 0 and id 0 is in use again, for a later call.
C2_Witness ==
    /\ reply[1].st = "msg" /\ reply[1].msg.request_id = 0
    /\ pending_tasks[0].kind = "Request" /\ pending_tasks[0].sender > 1
    /\ \E m \in daemon_reqs : m.request_id = 0

\* C3: task_count is the number of occupied slots and both are at most
\* MAX_REQUEST_COUNT, in every state: also after a command that failed (writer
\* channel closed, unwatch of an unknown token) and after a rejected response.
C3_TaskCount ==
    /\ task_count = Cardinality(OccupiedSlots)
    /\ task_count <= MAX_REQUEST_COUNT

\* A message answering no request was read and processed, the writer is gone,
\* a command failed on the closed writer channel, and a task is still parked.
C3_Witness ==
    /\ bogus = 1 /\ response_channel = <<>>
    /\ ~writer_alive
    /\ \E o \in Ops : reply[o] = RBrokenPipe
    /\ task_count = 1

C4_NoPendingEntry ==
    \A t \in DOMAIN watch_subscribers :
        LET o == watch_subscribers[t].channel IN
        /\ reply[o].st \in {"ok", "abandoned"}
        /\ \A i \in SlotIds :
              pending_tasks[i].kind = "WatchSubscribe" => pending_tasks[i].channel # o
        /\ \A k \in 1..Len(message_receiver) :
              message_receiver[k].type = "WatchSubscribe"
                  => message_receiver[k].event_sender # o

C4_InsertedOnWatch ==
    \A t \in DOMAIN watch_subscribers' :
        (t \notin DOMAIN watch_subscribers \/ watch_subscribers'[t] # watch_subscribers[t]) =>
            /\ TakesResponse
            /\ Head(response_channel).msg_type = "Watch"
            /\ Head(response_channel).request_id \in SlotIds
            /\ LET task == pending_tasks[Head(response_channel).request_id] IN
                  /\ task.kind = "WatchSubscribe"
                  /\ task.token = t
                  /\ watch_subscribers'[t] = WatchSubscriberInfo(task.channel, task.path)

C4_NotOnOtherKinds ==
    (TakesResponse /\ Head(response_channel).msg_type \notin {"Watch", "WatchEvent"}) =>
        \A t \in DOMAIN watch_subscribers' :
            t \in DOMAIN watch_subscribers /\ watch_subscribers'[t] = watch_subscribers[t]

\* C4: an entry enters the watch table only in the step that processes a
\* Watch-kind response to the WatchSubscribe task carrying its token, and it is
\* that task's subscriber; a subscriber whose WatchSubscribe is still pending
\* (queued or parked), or was answered with Error or another kind, has no entry.
C4_TableIsConfirmed ==
    [](C4_NoPendingEntry) /\ [][C4_InsertedOnWatch /\ C4_NotOnOtherKinds]_vars

\* One subscription is in the table, one is parked, one was refused.
C4_Witness ==
    /\ DOMAIN watch_subscribers # {}
    /\ \E i \in SlotIds : pending_tasks[i].kind = "WatchSubscribe"
    /\ \E o \in Ops : reply[o].st = "err"

\* The calls whose command is in the command channel.
QueuedOwners == {MessageOwner(message_receiver[k]) : k \in 1..Len(message_receiver)}

C6_DropSendsUnwatch ==
    [][(TakesMessage /\ Head(message_receiver).type = "WatchUnsubscribe" /\ writer_alive) =>
          \E o \in Ops : \E i \in SlotIds :
              /\ watch[o] = "dropped"
              /\ reply[o] = ROk(Head(message_receiver).token)
              /\ HandsToWriter(from_string_slice("Unwatch", i, <<o, reply[o].token>>))]_vars

\* C7: the step that drops a watch stream appends exactly one WatchUnsubscribe
\* command with the stream's token to the command channel when the multiplexer
\* is there, and leaves the channel alone (the failed send is ignored) when the
\* multiplexer has ended; the stream is dropped in both cases.
C7_DropEnqueuesOnce ==
    [][\A o \in Ops : (watch[o] = "live" /\ watch'[o] # "live") =>
          /\ watch'[o] = "dropped"
          /\ IF mux_pc # "ended"
             THEN message_receiver' =
                      Append(message_receiver, MsgWatchUnsubscribe(reply[o].token))
             ELSE message_receiver' = message_receiver]_vars

\* A stream was dropped and its WatchUnsubscribe is in the command channel.
C7_Witness ==
    \E o \in Ops :
        /\ watch[o] = "dropped"
        /\ \E k \in 1..Len(message_receiver) :
              message_receiver[k] = MsgWatchUnsubscribe(reply[o].token)

\* C8: once the reader's read or the writer's write has failed, the loop ends:
\* a multiplexer that can take no further step has ended.
C8_TransportFailureEndsLoop ==
    ((~reader_alive \/ ~writer_alive) /\ ~ENABLED MuxStep) => mux_pc = "ended"

C9_AllBroken ==
    mux_pc = "ended" =>
        /\ \A o \in Ops : reply[o].st # "waiting"
        /\ \A o \in Ops : ~EventSenderExists(o)

C9_AtTheEnd ==
    (mux_pc # "ended" /\ mux_pc' = "ended") =>
        \A o \in Ops : reply[o].st = "waiting" => reply'[o] = RBrokenPipe

C9_Afterwards ==
    mux_pc = "ended" =>
        /\ next_op' # next_op => reply'[next_op] = RBrokenPipe
        /\ \A o \in Ops : IsPrefix(evbuf'[o], evbuf[o]) \/ evbuf'[o] = Tail(evbuf[o])
        /\ mux_pc' = "ended"

\* C9: in the step that ends the loop every waiting caller gets BrokenPipe;
\* from then on no caller waits, every call issued fails with BrokenPipe at
\* once, and no sender of any event channel exists, so a watch stream only
\* yields what is already buffered and then ends.
C9_EndBreaksAll ==
    [](C9_AllBroken) /\ [][C9_AtTheEnd /\ C9_Afterwards]_vars

\* The loop ended with callers waiting (now BrokenPipe) and a live stream.
C9_Witness ==
    /\ mux_pc = "ended"
    /\ \E o \in Ops : watch[o] = "live"
    /\ \E o \in Ops : reply[o] = RBrokenPipe

\* C10: with no client handle and no watch stream left, the command channel
\* drained and no task parked, the loop ends: a multiplexer that can take no
\* further step has ended.
C10_LastHandleDropEndsLoop ==
    (MessageClosed /\ task_count = 0 /\ ~ENABLED MuxStep) => mux_pc = "ended"

\* The steps the tasks of launch_xenstore_task can take without the clients.
TaskStep == MuxStep \/ WriterWrite \/ WriterReject \/ ReaderResponse

\* C11: a call whose request payload exceeds XENSTORE_PAYLOAD_MAX completes
\* with an InvalidData error: once the tasks have nothing left to do, no such
\* call is still pending.
C11_OversizeSurfaced ==
    ~ENABLED TaskStep => \A o \in oversized : reply[o] = RErr("InvalidData")

\* The call whose task is parked in slot i has dropped its reply receiver.
AbandonedIn(i) ==
    /\ i \in OccupiedSlots
    /\ TaskOwner(pending_tasks[i]) \in Ops
    /\ reply[TaskOwner(pending_tasks[i])].st = "abandoned"

\* C12: when the response to a request whose caller has abandoned its reply
\* is processed, the slot is freed and task_count goes down by one (as for a
\* live caller), the response reaches nobody (no reply changes), and the loop
\* keeps running.
C12_AbandonedFreed ==
    [][(TakesResponse /\ Head(response_channel).msg_type # "WatchEvent"
          /\ AbandonedIn(Head(response_channel).request_id)) =>
          /\ pending_tasks'[Head(response_channel).request_id] = NoTask
          /\ task_count' = task_count - 1
          /\ task_count' = Cardinality({i \in SlotIds : pending_tasks'[i].kind # "None"})
          /\ reply' = reply
          /\ mux_pc' = "select"]_vars

\* An abandoned call is parked nowhere any more, with writer and loop alive:
\* its response came and its slot was freed.
C12_Witness ==
    \E o \in Ops :
        /\ reply[o].st = "abandoned"
        /\ writer_alive /\ mux_pc = "select"
        /\ o \notin QueuedOwners
        /\ \A i \in SlotIds : TaskOwner(pending_tasks[i]) # o
        /\ task_count = 0

\* Call o is a confirmed subscription: its stream is live and the watch table
\* holds its event channel under its token.
Subscribed(o) ==
    /\ watch[o] = "live"
    /\ reply[o].st = "ok"
    /\ reply[o].token \in DOMAIN watch_subscribers
    /\ watch_subscribers[reply[o].token].channel = o

\* The paths of the watch events in q that carry token t, in the order of q.
RECURSIVE EventPaths(_, _)
EventPaths(q, t) ==
    IF q = <<>> THEN <<>>
    ELSE (IF Head(q).msg_type = "WatchEvent" /\ Len(Head(q).payload) = 2
             /\ Head(q).payload[2] = t
          THEN <<Head(q).payload[1]>> ELSE <<>>) \o EventPaths(Tail(q), t)

\* The path the multiplexer holds for o's channel while suspended in its send.
HeldFor(o) ==
    IF mux_pc = "send_event" /\ watch_subscribers[mux_hold.uuid].channel = o
    THEN <<mux_hold.value>> ELSE <<>>

\* What o's stream has yielded, followed by what it will yield: the paths in
\* its buffer, the one held for it, and those of its token the reader has
\* received and the multiplexer not yet taken.
StreamSeq(o) ==
    yielded[o] \o evbuf[o] \o HeldFor(o) \o EventPaths(response_channel, reply[o].token)

C13_FromConfirmation ==
    \A o \in Ops : (~Subscribed(o) /\ Subscribed(o)') =>
        yielded'[o] = <<>> /\ evbuf'[o] = <<>> /\ HeldFor(o)' = <<>>

C13_Preserved ==
    \A o \in Ops : (Subscribed(o) /\ Subscribed(o)') =>
        \/ StreamSeq(o)' = StreamSeq(o)
        \/ \E v \in 1..NumLoggedVals :
              /\ response_channel' = Append(response_channel,
                      from_string_slice("WatchEvent", 0, <<v, reply[o].token>>))
              /\ StreamSeq(o)' = Append(StreamSeq(o), v)

PendingTokenSlots(t) ==
    {i \in SlotIds : pending_tasks[i].kind = "WatchSubscribe" /\ pending_tasks[i].token = t}

HeldToken(t) ==
    mux_pc = "send_request" /\ mux_hold.task.kind = "WatchSubscribe" /\ mux_hold.task.token = t

\* C14: no token is assigned to two subscriptions that exist at the same
\* time, be they confirmed (in the watch table) or pending (their Watch
\* command parked or being sent).
C14_TokensDistinct ==
    \A t \in Tokens :
        Cardinality(PendingTokenSlots(t))
            + (IF HeldToken(t) THEN 1 ELSE 0)
            + (IF t \in DOMAIN watch_subscribers THEN 1 ELSE 0) <= 1

\* The response at the head of the response channel is an Error answering a
\* parked WatchUnsubscribe task, and the multiplexer is about to take it.
UnwatchErrorAtHead ==
    /\ mux_pc = "select"
    /\ response_channel # <<>>
    /\ Head(response_channel).msg_type = "Error"
    /\ Head(response_channel).request_id \in SlotIds
    /\ pending_tasks[Head(response_channel).request_id].kind = "WatchUnsubscribe"

\* C15 as stated: processing an Error response to a parked WatchUnsubscribe
\* task ends the main loop.
C15_UnwatchErrorEndsLoop ==
    [][(UnwatchErrorAtHead /\ TakesResponse) => mux_pc' = "ended"]_vars

\* C15, amended: processing an Error response to a parked WatchUnsubscribe
\* task frees the slot and lowers task_count, leaves the watch table and all
\* replies as they are, and the main loop keeps running (the failure is only
\* logged).
C15_UnwatchErrorLogged ==
    [][(UnwatchErrorAtHead /\ TakesResponse) =>
          /\ mux_pc' = "select"
          /\ pending_tasks'[Head(response_channel).request_id] = NoTask
          /\ task_count' = task_count - 1
          /\ watch_subscribers' = watch_subscribers
          /\ reply' = reply]_vars

\* The daemon has refused an Unwatch, the token is still in the table, and
\* the multiplexer is about to process the refusal.
C15_Witness ==
    /\ UnwatchErrorAtHead
    /\ pending_tasks[Head(response_channel).request_id].token \in DOMAIN watch_subscribers

\* C16: transmit_request (async and blocking) returns the response as a
\* success exactly when its kind is the request's kind; otherwise an
\* Error-kind response gives the error parse_error translates it to (NotFound
\* for "ENOENT"), and every other kind gives InvalidData.
C16_Classified ==
    res.is = "transmit_request" =>
        LET q == arg.req
            r == arg.response
            v == res.value
        IN /\ v.ok <=> r.msg_type = q
           /\ v.ok => v.value = r
           /\ (r.msg_type # q /\ r.msg_type = "Error") =>
                 /\ ~v.ok /\ v.error = parse_error(r)
                 /\ r.payload = ErrorTable[5][1] \o <<NUL>> => v.error.kind = "NotFound"
           /\ r.msg_type \notin {q, "Error"} => ~v.ok /\ v.error.kind = "InvalidData"

\* The blocking client got a response of another kind than its request's
\* (and not an Error): InvalidData; the async client got an Error: NotFound.
C16_Witness ==
    /\ res.is = "transmit_request"
    /\ arg.req = "Read"
    /\ \/ res.by = "unix" /\ arg.response.msg_type = "Rm"
          /\ ~res.value.ok /\ res.value.error.kind = "InvalidData"
       \/ res.by = "tokio" /\ arg.response.msg_type = "Error"
          /\ ~res.value.ok /\ res.value.error.kind = "NotFound"

\* C17: decoding the bytes an encoder produced for a message (any kind of
\* the enumeration, any req_id, a payload of at most XENSTORE_PAYLOAD_MAX
\* bytes) returns that message.
C17_RoundTrip ==
    res.is = "roundtrip" => res.value = Ok(arg.msg)

\* C18: the u32 an encoder writes at offset 0 of the header is the number the
\* kind-to-u32 conversion gives for the message's kind.
C18_TypeField ==
    (res.is = "encode" /\ res.out.result.ok) =>
        from_ne_bytes(SubSeq(res.out.written, 1, 4), arg.endian)
            = MsgTypeToU32(arg.msg.msg_type)

\* C19: a decoder given a complete stream accepts exactly the type values
\* 0..19, 21 and 22, with the kind at that place of the table, and fails
\* with Unsupported for 20 and every value above 22; the kind it returns
\* converts back to the value it was given, and every kind's number converts
\* to that kind.
C19_DecodeTable ==
    /\ \A k \in MessageTypes : TryFromU32(MsgTypeToU32(k)) = Ok(k)
    /\ (res.is = "decode" /\ arg.len = Len(arg.payload)) =>
          LET n == arg.type
              v == res.value
          IN /\ n \in 0..19 => v.ok /\ v.value.msg_type = XsMessageType[n + 1]
             /\ n = 21 => v.ok /\ v.value.msg_type = "ResetWatches"
             /\ n = 22 => v.ok /\ v.value.msg_type = "DirectoryPart"
             /\ (n = 20 \/ n > 22) => ~v.ok /\ v.error.kind = "Unsupported"
             /\ v.ok => MsgTypeToU32(v.value.msg_type) = n

\* The async decoder was given type 22 and returned DirectoryPart.
C19_Witness ==
    /\ res.is = "decode" /\ res.by = "read_message_async"
    /\ arg.type = 22 /\ arg.len = Len(arg.payload)
    /\ res.value.ok /\ res.value.value.msg_type = "DirectoryPart"

\* C20: an encoder (blocking or async) fails with InvalidData exactly when
\* the payload is longer than XENSTORE_PAYLOAD_MAX bytes, in which case the
\* sink has taken no byte; a payload of exactly XENSTORE_PAYLOAD_MAX bytes is
\* written in full to a working sink.
C20_EncodeLimit ==
    res.is = "encode" =>
        LET len == Len(arg.msg.payload)
            out == res.out
        IN /\ (~out.result.ok /\ out.result.error.kind = "InvalidData")
                  <=> len > XENSTORE_PAYLOAD_MAX
           /\ len > XENSTORE_PAYLOAD_MAX => out.written = <<>>
           /\ (len = XENSTORE_PAYLOAD_MAX /\ arg.sink = "ok") =>
                  out.result.ok /\ Len(out.written) = 16 + XENSTORE_PAYLOAD_MAX

\* The async encoder took a payload of exactly XENSTORE_PAYLOAD_MAX bytes.
C20_Witness ==
    /\ res.is = "encode" /\ res.by = "write_message_async"
    /\ Len(arg.msg.payload) = XENSTORE_PAYLOAD_MAX
    /\ res.out.result.ok

\* C21: for every non-empty list of strings without NUL (empty strings
\* included), parsing the payload from_string_slice builds from it returns
\* the list.
C21_ListRoundTrip ==
    (res.is = "list" /\ res.nul) => res.value = Ok(arg.strings)

\* A list with an empty string in the middle and at the end came back.
C21_Witness ==
    /\ res.is = "list" /\ res.nul
    /\ arg.strings = <<<<65>>, <<>>, <<>>>>
    /\ res.value.ok /\ Len(res.value.value) = 3

\* C22 as stated: for every non-empty list (also when its last element is
\* the empty string) the payload without the NUL of the last element parses
\* to what the payload with it parses to.
C22_TrailingNulOptional ==
    (res.is = "list" /\ ~res.nul) =>
        res.value = parse_payload_list(XsMessage("Directory", 0, res.payload \o <<NUL>>))

\* C22, amended: for every non-empty list whose last element is not the
\* empty string, the payload without the NUL of the last element parses to
\* what the payload with it parses to, the list itself.
C22_TrailingNulOptionalNonEmptyLast ==
    (res.is = "list" /\ ~res.nul /\ Last(arg.strings) # <<>>) =>
        /\ res.value = parse_payload_list(XsMessage("Directory", 0, res.payload \o <<NUL>>))
        /\ res.value = Ok(arg.strings)

\* A list with an empty first element and a non-empty last one was parsed
\* from the payload that lacks the last NUL.
C22_Witness ==
    /\ res.is = "list" /\ ~res.nul
    /\ arg.strings = <<<<>>, <<65, 66>>>>
    /\ res.payload = <<NUL, 65, 66>>
    /\ res.value.ok

\* The table of error names, by kind.
C23_Table ==
    <<
       <<"InvalidInput", {<<69, 73, 78, 86, 65, 76>>, <<69, 78, 79, 84, 69, 77, 80, 84, 89>>}>>,   \* EINVAL, ENOTEMPTY
       <<"PermissionDenied", {<<69, 65, 67, 67, 69, 83>>, <<69, 80, 69, 82, 77>>, <<69, 82, 79, 70, 83>>}>>,   \* EACCES, EPERM, EROFS
       <<"AlreadyExists", {<<69, 69, 88, 73, 83, 84>>, <<69, 73, 83, 68, 73, 82>>, <<69, 66, 85, 83, 89>>}>>,   \* EEXIST, EISDIR, EBUSY
       <<"NotFound", {<<69, 78, 79, 69, 78, 84>>}>>,   \* ENOENT
       <<"OutOfMemory", {<<69, 78, 79, 77, 69, 77>>, <<69, 78, 79, 83, 80, 67>>}>>,   \* ENOMEM, ENOSPC
       <<"Unsupported", {<<69, 78, 79, 83, 89, 83>>}>>,   \* ENOSYS
       <<"WouldBlock", {<<69, 65, 71, 65, 73, 78>>}>>,   \* EAGAIN
       <<"AddrInUse", {<<69, 73, 83, 67, 79, 78, 78>>}>>,   \* EISCONN
       <<"InvalidData", {<<69, 50, 66, 73, 71>>}>>   \* E2BIG
    >>

C23_KindOf(name) ==
    IF \E i \in 1..Len(C23_Table) : name \in C23_Table[i][2]
    THEN C23_Table[CHOOSE i \in 1..Len(C23_Table) : name \in C23_Table[i][2]][1]
    ELSE "Other"

\* C23: parse_error gives the error name in an Error message's payload the
\* kind the table lists for it (InvalidInput for EINVAL and ENOTEMPTY, ...,
\* InvalidData for E2BIG), Other for EIO and for every string that is not in
\* the table, and the error's message contains the string.
C23_ErrorMapping ==
    (res.is = "parse_error" /\ arg.msg.payload # <<>> /\ Utf8Valid(arg.name)) =>
        /\ res.value.kind = C23_KindOf(arg.name)
        /\ Len(res.value.text) = 2 /\ res.value.text[2] = arg.name
        /\ arg.name = <<69, 73, 79>> => res.value.kind = "Other"

\* "ENOTEMPTY" without its NUL was translated to InvalidInput.
C23_Witness ==
    /\ res.is = "parse_error"
    /\ arg.name = <<69, 78, 79, 84, 69, 77, 80, 84, 89>> /\ ~arg.nul
    /\ res.value.kind = "InvalidInput"

\* The step drops a handle while another clone exists.
DropsOneOfSeveral == handles >= 2 /\ handle_drops' = handle_drops + 1

C24_DropIsSilent ==
    DropsOneOfSeveral =>
        /\ handles' = handles - 1
        /\ UNCHANGED <<pending_tasks, task_count, watch_subscribers, message_receiver,
                       request_channel, response_channel, mux_pc, mux_hold,
                       writer_alive, reader_alive, daemon_reqs, reply>>
        /\ RunBreakCondition' => RunBreakCondition

C24_OthersServed ==
    /\ \A o \in Ops : reply[o].st = "msg" => reply[o].msg.payload = <<o>>
    /\ (handles >= 1 /\ reader_alive) =>
          /\ mux_pc # "ended"
          /\ \A o \in Ops : reply[o] # RBrokenPipe
          /\ (next_op <= MaxOps /\ Len(message_receiver) < MaxQueue) =>
                ENABLED TransmitRequest

\* C24: the step that drops one handle while another clone exists changes
\* only the number of handles: the parked tasks, the queued commands and the
\* messages on their way stay, no reply is touched and the loop's exit
\* condition does not become true; while a handle exists and the transport
\* reads, the loop runs, no call has failed with BrokenPipe, every delivered
\* response is the caller's own, and a new command is accepted.
C24_DropLeavesClones ==
    [](C24_OthersServed) /\ [][C24_DropIsSilent]_vars

\* A clone was dropped while call 1 was in flight (call 2 was made later and
\* is parked); call 1 has received its response since.
C24_Witness ==
    /\ handle_drops = 1 /\ handles = 1
    /\ reply[1].st = "msg" /\ reply[1].msg.payload = <<1>>
    /\ reply[2].st = "waiting"
    /\ \E i \in SlotIds : TaskOwner(pending_tasks[i]) = 2
    /\ mux_pc = "select"

\* The multiplexer takes a WatchEvent in this step, or resumes the delivery
\* of one.
ProcessesWatchEvent ==
    \/ TakesResponse /\ Head(response_channel).msg_type = "WatchEvent"
    \/ mux_pc = "send_event" /\ mux_pc' = "select"

\* C25: the steps that process a WatchEvent leave the pending-task table and
\* task_count as they are, whatever the event's req_id (zero, the index of an
\* occupied slot, out of range); no reply is delivered and nothing is sent to
\* the writer: only the watch table and the subscribers' sinks may change.
C25_EventLeavesTasks ==
    [][ProcessesWatchEvent =>
          /\ pending_tasks' = pending_tasks
          /\ task_count' = task_count
          /\ reply' = reply
          /\ request_channel' = request_channel
          /\ message_receiver' = message_receiver]_vars

\* The multiplexer is about to take a WatchEvent for a live subscriber whose
\* req_id names the slot where another call's task is parked.
C25_Witness ==
    /\ mux_pc = "select" /\ response_channel # <<>>
    /\ Head(response_channel).msg_type = "WatchEvent"
    /\ Head(response_channel).request_id = 1
    /\ pending_tasks[1].kind = "WatchSubscribe"
    /\ Len(Head(response_channel).payload) = 2
    /\ \E o \in Ops : Subscribed(o) /\ reply[o].token = Head(response_channel).payload[2]

\* The event at the head of the response channel is one to be dropped: its
\* payload is not two strings, or its token is no UUID or is not in the table.
DroppedEventAtHead ==
    /\ response_channel # <<>>
    /\ Head(response_channel).msg_type = "WatchEvent"
    /\ \/ Len(Head(response_channel).payload) # 2
       \/ Head(response_channel).payload[2] = NotUuid
       \/ Head(response_channel).payload[2] \notin DOMAIN watch_subscribers

\* The subscriber the step delivers an event to (token t) has a closed sink.
SendsToClosedSink(t) ==
    /\ t \in DOMAIN watch_subscribers
    /\ ~EventReceiverAlive(watch_subscribers[t].channel)
    /\ \/ /\ TakesResponse
          /\ Head(response_channel).msg_type = "WatchEvent"
          /\ Len(Head(response_channel).payload) = 2
          /\ Head(response_channel).payload[2] = t
       \/ /\ mux_pc = "send_event" /\ mux_hold.uuid = t
          /\ mux_pc' = "select"

\* C26: the step that takes a WatchEvent whose payload is not two strings,
\* whose token is no UUID or is not in the watch table changes nothing but
\* the response channel, and the loop goes on; the step that delivers an
\* event to a subscriber whose sink is closed removes that subscriber's token
\* from the watch table, no other, and leaves every other entry as it is.
C26_EventDropped ==
    [][/\ (TakesResponse /\ DroppedEventAtHead) =>
             /\ UNCHANGED <<pending_tasks, task_count, watch_subscribers, evbuf, reply,
                            watch, request_channel, message_receiver, mux_hold>>
             /\ mux_pc' = "select"
       /\ \A t \in Tokens : SendsToClosedSink(t) =>
             /\ watch_subscribers' = MapRemove(watch_subscribers, t)
             /\ evbuf' = evbuf
             /\ mux_pc' = "select"]_vars

\* One event had a payload that is not a path and a token and was dropped;
\* of two subscribers one, whose stream was dropped, has been removed by an
\* event while its unsubscribe command still waits; the other is in the table.
C26_Witness ==
    /\ bogus = 1 /\ response_channel = <<>> /\ mux_pc = "select"
    /\ \E o \in Ops : \E p \in Ops \ {o} :
          /\ watch[o] = "dropped" /\ reply[o].st = "ok"
          /\ reply[o].token \notin DOMAIN watch_subscribers
          /\ \E k \in 1..Len(message_receiver) :
                message_receiver[k] = MsgWatchUnsubscribe(reply[o].token)
          /\ Subscribed(p)

\* The response the multiplexer is about to take answers a parked
\* WatchSubscribe task.
WatchResponseAtHead ==
    /\ mux_pc = "select"
    /\ response_channel # <<>>
    /\ Head(response_channel).msg_type # "WatchEvent"
    /\ Head(response_channel).request_id \in SlotIds
    /\ pending_tasks[Head(response_channel).request_id].kind = "WatchSubscribe"

\* C27: the step that processes the response to a parked WatchSubscribe task
\* frees the slot, lowers task_count and leaves the loop running; a Watch
\* response puts the task's subscriber in the table under the task's token
\* and gives the waiting caller Ok(token); an Error response gives it the
\* daemon's error and any other kind InvalidData, the table staying as it is.
C27_WatchResponse ==
    [][(WatchResponseAtHead /\ TakesResponse) =>
          LET response == Head(response_channel)
              task == pending_tasks[response.request_id]
              o == task.result_channel
              waits == reply[o].st = "waiting"
          IN /\ pending_tasks' = [pending_tasks EXCEPT ![response.request_id] = NoTask]
             /\ task_count' = task_count - 1
             /\ mux_pc' = "select"
             /\ \A q \in Ops \ {o} : reply'[q] = reply[q]
             /\ ~waits => reply'[o] = reply[o]
             /\ response.msg_type = "Watch" =>
                   /\ DOMAIN watch_subscribers' = DOMAIN watch_subscribers \cup {task.token}
                   /\ watch_subscribers'[task.token].channel = task.channel
                   /\ watch_subscribers'[task.token].path = task.path
                   /\ \A t \in DOMAIN watch_subscribers \ {task.token} :
                         watch_subscribers'[t] = watch_subscribers[t]
                   /\ waits => reply'[o] = ROk(task.token)
             /\ response.msg_type = "Error" =>
                   /\ watch_subscribers' = watch_subscribers
                   /\ waits => reply'[o] = RErr("daemon")
             /\ response.msg_type \notin {"Watch", "Error"} =>
                   /\ watch_subscribers' = watch_subscribers
                   /\ waits => reply'[o] = RErr("InvalidData")]_vars

\* Three watch() calls have been answered, with Watch, Error and another
\* kind; no task is parked and the loop runs.
C27_Witness ==
    /\ \E a \in Ops : reply[a].st = "ok" /\ reply[a].token \in DOMAIN watch_subscribers
    /\ \E b \in Ops : reply[b] = RErr("daemon")
    /\ \E c \in Ops : reply[c] = RErr("InvalidData")
    /\ Cardinality(DOMAIN watch_subscribers) = 1
    /\ task_count = 0 /\ OccupiedSlots = {}
    /\ mux_pc = "select"

\* The response the multiplexer is about to take is an Unwatch answering a
\* parked WatchUnsubscribe task.
UnwatchResponseAtHead ==
    /\ mux_pc = "select"
    /\ response_channel # <<>>
    /\ Head(response_channel).msg_type = "Unwatch"
    /\ Head(response_channel).request_id \in SlotIds
    /\ pending_tasks[Head(response_channel).request_id].kind = "WatchUnsubscribe"

C28_Removed ==
    (UnwatchResponseAtHead /\ TakesResponse) =>
        LET token == pending_tasks[Head(response_channel).request_id].token IN
        /\ token \notin DOMAIN watch_subscribers'
        /\ DOMAIN watch_subscribers' = DOMAIN watch_subscribers \ {token}
        /\ \A t \in DOMAIN watch_subscribers' : watch_subscribers'[t] = watch_subscribers[t]
        /\ token \in DOMAIN watch_subscribers =>
              \A t \in DOMAIN watch_subscribers' :
                  watch_subscribers'[t].channel # watch_subscribers[token].channel
        /\ mux_pc' = "select"

C28_NoSinkAfterwards ==
    (TakesResponse /\ Head(response_channel).msg_type = "WatchEvent"
        /\ Len(Head(response_channel).payload) = 2
        /\ Head(response_channel).payload[2] \notin DOMAIN watch_subscribers) =>
        /\ evbuf' = evbuf
        /\ mux_pc' = "select"
        /\ watch_subscribers' = watch_subscribers

\* C28: the step that processes an Unwatch response to a parked
\* WatchUnsubscribe(token) task leaves a watch table without token (it may
\* have been without it before) and with every other entry as it was; a
\* WatchEvent that carries a token the table does not hold reaches no sink.
C28_UnwatchRemoves ==
    [][C28_Removed /\ C28_NoSinkAfterwards]_vars

\* Two subscriptions are in the table, the stream of one was dropped, and
\* the multiplexer is about to take the daemon's Unwatch response for it.
C28_Witness ==
    /\ UnwatchResponseAtHead
    /\ pending_tasks[Head(response_channel).request_id].token \in DOMAIN watch_subscribers
    /\ Cardinality(DOMAIN watch_subscribers) = 2

\* The subscriber was removed before the Unwatch response came (an event found
\* its sink closed), and the multiplexer is about to take the response.
C28_WitnessAbsent ==
    /\ UnwatchResponseAtHead
    /\ pending_tasks[Head(response_channel).request_id].token \notin DOMAIN watch_subscribers

\* The Watch and Unwatch messages on their way to the daemon, and the one
\* the multiplexer holds while suspended in its send.
SentMessages ==
    {request_channel[k] : k \in 1..Len(request_channel)} \cup daemon_reqs
        \cup (IF mux_pc = "send_request" THEN {mux_hold.msg} ELSE {})

\* The task that goes with the message of req_id i.
TaskOf(i) ==
    IF mux_pc = "send_request" /\ mux_hold.req_id = i THEN mux_hold.task
    ELSE pending_tasks[i]

\* While the loop runs, a Watch message carries the path and the token of
\* its task.
C29_WatchCarriesTask ==
    \A m \in SentMessages : (m.msg_type = "Watch" /\ mux_pc # "ended") =>
        /\ TaskOf(m.request_id).kind = "WatchSubscribe"
        /\ m.payload = <<TaskOf(m.request_id).path, TaskOf(m.request_id).token>>

\* The table keeps, under a token, the path of the task that registered it.
C29_TableKeepsPath ==
    \A t \in DOMAIN watch_subscribers' :
        (t \notin DOMAIN watch_subscribers \/ watch_subscribers'[t] # watch_subscribers[t]) =>
            /\ WatchResponseAtHead /\ TakesResponse
            /\ Head(response_channel).msg_type = "Watch"
            /\ pending_tasks[Head(response_channel).request_id].token = t
            /\ watch_subscribers'[t].path = pending_tasks[Head(response_channel).request_id].path

\* An Unwatch message that comes into being carries a token of the table,
\* with the path the table keeps under it.
C29_UnwatchCarriesTable ==
    \A m \in SentMessages' \ SentMessages : m.msg_type = "Unwatch" =>
        /\ Len(m.payload) = 2
        /\ m.payload[2] \in DOMAIN watch_subscribers
        /\ m.payload[1] = watch_subscribers[m.payload[2]].path
        /\ TaskOf(m.request_id)' = TaskWatchUnsubscribe(m.payload[2])

\* C29: an Unwatch message the multiplexer sends carries the token of its
\* WatchUnsubscribe task and the path the watch table holds under that token;
\* the table's path is the path of the WatchSubscribe task whose Watch
\* response registered the token, and that task's Watch message carried the
\* same path and the same token.
C29_UnwatchPath ==
    [](C29_WatchCarriesTask) /\ [][C29_TableKeepsPath /\ C29_UnwatchCarriesTable]_vars

\* The second watch() call (path 2) was confirmed, its stream dropped, and
\* the Unwatch message with its path and token has been written to the
\* transport, while the first subscription (path 1) is in the table.
C29_Witness ==
    /\ watch[2] = "dropped" /\ reply[2].st = "ok"
    /\ \E m \in daemon_reqs : m.msg_type = "Unwatch" /\ m.payload = <<2, reply[2].token>>
    /\ Subscribed(1)

\* The response the multiplexer is about to take is no WatchEvent and its
\* req_id is out of range or names an empty slot.
StrayResponseAtHead ==
    /\ mux_pc = "select"
    /\ response_channel # <<>>
    /\ Head(response_channel).msg_type # "WatchEvent"
    /\ \/ Head(response_channel).request_id >= MAX_REQUEST_COUNT
       \/ pending_tasks[Head(response_channel).request_id].kind = "None"

\* C30: the step that takes a response which is no WatchEvent and whose
\* req_id is MAX_REQUEST_COUNT or more, or names an empty slot, changes
\* neither the pending-task table nor task_count nor the watch table,
\* delivers nothing to any caller or sink, and leaves the loop running.
C30_StrayRejected ==
    [][(StrayResponseAtHead /\ TakesResponse) =>
          /\ UNCHANGED <<pending_tasks, task_count, watch_subscribers, reply, watch, evbuf,
                         message_receiver, request_channel, mux_hold>>
          /\ mux_pc' = "select"]_vars

\* The multiplexer is about to take a Watch response that names the empty
\* slot 1, while a task is parked in slot 0 and a subscription is in the table.
C30_Witness ==
    /\ StrayResponseAtHead
    /\ Head(response_channel).msg_type = "Watch"
    /\ Head(response_channel).request_id = 1
    /\ pending_tasks[0].kind # "None"
    /\ DOMAIN watch_subscribers # {}

\* The multiplexer is about to take an Error response whose req_id is out of
\* range, with the table full.
C30_WitnessOutOfRange ==
    /\ StrayResponseAtHead
    /\ Head(response_channel).msg_type = "Error"
    /\ Head(response_channel).request_id = MAX_REQUEST_COUNT
    /\ task_count = MAX_REQUEST_COUNT

\* C31: whenever the multiplexer takes a command out of the command channel a
\* slot is free, so that process_message's search for one succeeds: the
\* "No available slot" failure does not happen.
C31_SlotAvailable ==
    [][TakesMessage => FindSlot(pending_tasks) # NoSlot]_vars

\* Every slot is occupied, a command waits in the command channel and the
\* multiplexer is in its select.
C31_Witness ==
    /\ OccupiedSlots = SlotIds
    /\ message_receiver # <<>>
    /\ mux_pc = "select"
    /\ writer_alive /\ reader_alive

\* The call whose request or watch subscription a wire message carries (its
\* number is its place in the order of submission), 0 for an Unwatch.
CallOfWire(m) == IF m.msg_type \in {"Read", "Write", "Watch"} THEN m.payload[1] ELSE 0

\* The calls still on their way to the transport, from the nearest to the
\* transport to the farthest: request channel, the message the multiplexer
\* holds, command channel.
Upstream ==
    [k \in 1..Len(request_channel) |-> CallOfWire(request_channel[k])]
    \o (IF mux_pc = "send_request" THEN <<CallOfWire(mux_hold.msg)>> ELSE <<>>)
    \o [k \in 1..Len(message_receiver) |-> MessageOwner(message_receiver[k])]

UpstreamCalls == SelectSeq(Upstream, LAMBDA o : o # 0)

\* C32: commands are taken in the order they were enqueued and written to the
\* transport in that order: the calls on their way to the transport stay in
\* submission order, the writer writes the head of the request channel, and
\* a request is never written while an earlier call is still on its way.
C32_SubmissionOrder ==
    /\ [](\A j, k \in 1..Len(UpstreamCalls) : j < k => UpstreamCalls[j] < UpstreamCalls[k])
    /\ [][\A m \in daemon_reqs' \ daemon_reqs :
            /\ m = Head(request_channel)
            /\ request_channel' = Tail(request_channel)
            /\ CallOfWire(m) # 0 =>
                 \A k \in 1..Len(UpstreamCalls) : UpstreamCalls[k] >= CallOfWire(m)]_vars

\* Two requests have been written, the earlier one unanswered, and a third
\* call waits in the command channel.
C32_Witness ==
    /\ \E m1, m2 \in daemon_reqs :
          CallOfWire(m1) # 0 /\ CallOfWire(m1) < CallOfWire(m2)
    /\ message_receiver # <<>>
    /\ MessageOwner(Head(message_receiver)) # 0

\* The places that hold the one-shot sender of call o: slots, the task the
\* multiplexer holds across a suspended send, commands not yet taken.
SenderHolders(o) ==
    Cardinality({i \in SlotIds : TaskOwner(pending_tasks[i]) = o})
    + (IF mux_pc = "send_request" /\ TaskOwner(mux_hold.task) = o THEN 1 ELSE 0)
    + Cardinality({k \in 1..Len(message_receiver) : MessageOwner(message_receiver[k]) = o})

Delivered(o) == reply[o].st \in {"msg", "ok", "err", "BrokenPipe"}

\* C33: a one-shot reply channel sees one delivery or is dropped, never two:
\* its sender is held in at most one place, in none once the caller has its
\* result, and a result once delivered never changes.  A response that names
\* a slot already freed is rejected and reaches no caller.
C33_OneDelivery ==
    /\ [](\A o \in Ops : SenderHolders(o) <= 1 /\ (Delivered(o) => SenderHolders(o) = 0))
    /\ [][/\ \A o \in Ops : Delivered(o) => reply'[o] = reply[o]
          /\ (StrayResponseAtHead /\ TakesResponse) => reply' = reply]_vars

\* A caller has the response that carried req_id i, slot i is free again, and
\* the multiplexer is about to take a second response with req_id i.
C33_Witness ==
    /\ StrayResponseAtHead
    /\ Head(response_channel).request_id < MAX_REQUEST_COUNT
    /\ \E o \in Ops : /\ reply[o].st = "msg"
                      /\ reply[o].msg.request_id = Head(response_channel).request_id

\* C34: every message a decoder returns carries a payload of at most
\* XENSTORE_PAYLOAD_MAX bytes; a header whose len field is larger yields no
\* message.
C34_DecodedPayloadBounded ==
    (res.is = "decode" /\ arg.len > XENSTORE_PAYLOAD_MAX) => ~res.value.ok

\* The response to a request of a caller that still waits for it is at the
\* head of the response channel.
AwaitedResponseAtHead ==
    /\ mux_pc # "ended"
    /\ response_channel # <<>>
    /\ Head(response_channel).msg_type # "WatchEvent"
    /\ Head(response_channel).request_id \in SlotIds
    /\ pending_tasks[Head(response_channel).request_id].kind = "Request"
    /\ reply[pending_tasks[Head(response_channel).request_id].sender].st = "waiting"

\* C35: a subscriber that does not consume its stream cannot stop the
\* multiplexer: while the response to a waiting caller's request is at the
\* head of the response channel, the multiplexer can take a step (or the
\* writer can make room for the send it is suspended in).
C35_StalledSubscriberHarmless ==
    AwaitedResponseAtHead => ENABLED (MuxStep \/ WriterWrite)

\* C36: a watch() abandoned before its confirmation is processed is not
\* leaked: once the tasks of a working transport have nothing left to do, no
\* token of an abandoned watch() is in the watch table.
C36_AbandonedWatchReleased ==
    (reader_alive /\ writer_alive /\ mux_pc # "ended" /\ ~ENABLED TaskStep) =>
        \A t \in DOMAIN watch_subscribers :
            reply[watch_subscribers[t].channel].st # "abandoned"

\* C37: a request the encoder rejects affects its own caller only: once the
\* tasks have nothing left to do, every request of ordinary size submitted
\* after an oversized one has been written and answered.
C37_OversizeIsolated ==
    ~ENABLED TaskStep =>
        \A o \in Ops \ oversized :
            (reply[o].st # "none" /\ \E b \in oversized : b < o) => reply[o].st = "msg"

\* C38: no caller waits forever after a transport failure: once the reader or
\* the writer has failed and the tasks have nothing left to do, no call is
\* still waiting for its reply.
C38_NoWaitAfterFailure ==
    ((~reader_alive \/ ~writer_alive) /\ ~ENABLED TaskStep) =>
        \A o \in Ops : reply[o].st # "waiting"

\* The multiplexer takes a WatchEvent whose token is that of the
\* WatchSubscribe task parked in slot i.
TakesEventOfPending(i) ==
    /\ TakesResponse
    /\ Head(response_channel).msg_type = "WatchEvent"
    /\ Len(Head(response_channel).payload) = 2
    /\ pending_tasks[i].kind = "WatchSubscribe"
    /\ pending_tasks[i].token = Head(response_channel).payload[2]

\* C39: a WatchEvent that carries the token of a WatchSubscribe task still
\* pending is never delivered to that subscription's stream: nothing is
\* buffered or held for its sink, and with the token absent from the watch
\* table the event is dropped without any effect; when the subscription is
\* confirmed its stream starts empty.
C39_PendingEventDropped ==
    [][/\ \A i \in SlotIds : TakesEventOfPending(i) =>
            /\ evbuf'[pending_tasks[i].channel] = evbuf[pending_tasks[i].channel]
            /\ ~(/\ mux_pc' = "send_event"
                 /\ watch_subscribers'[mux_hold'.uuid].channel = pending_tasks[i].channel)
            /\ Head(response_channel).payload[2] \notin DOMAIN watch_subscribers =>
                 /\ UNCHANGED <<evbuf, watch_subscribers, mux_hold, pending_tasks,
                                task_count, reply, watch>>
                 /\ mux_pc' = "select"
       /\ \A o \in Ops : (reply[o].st = "waiting" /\ reply'[o].st = "ok") =>
            evbuf'[o] = <<>>]_vars

\* The multiplexer is about to take a WatchEvent whose token is that of a
\* parked WatchSubscribe task and is not in the watch table, the caller of
\* watch() still waiting.
C39_Witness ==
    /\ mux_pc = "select"
    /\ response_channel # <<>>
    /\ Head(response_channel).msg_type = "WatchEvent"
    /\ \E i \in SlotIds :
          /\ pending_tasks[i].kind = "WatchSubscribe"
          /\ pending_tasks[i].token = Head(response_channel).payload[2]
          /\ reply[pending_tasks[i].result_channel].st = "waiting"
    /\ Head(response_channel).payload[2] \notin DOMAIN watch_subscribers

\* A WatchUnsubscribe command for a token the watch table lacks is at the head
\* of the command channel and the multiplexer can take it.
UnknownUnwatchAtHead ==
    /\ mux_pc = "select"
    /\ task_count # MAX_REQUEST_COUNT
    /\ message_receiver # <<>>
    /\ Head(message_receiver).type = "WatchUnsubscribe"
    /\ Head(message_receiver).token \notin DOMAIN watch_subscribers

\* C40: the step that takes a WatchUnsubscribe command whose token is not in
\* the watch table sends nothing to the writer, occupies no slot, leaves
\* task_count and the watch table as they are, and the loop goes on.
C40_UnknownUnwatchNoEffect ==
    [][(UnknownUnwatchAtHead /\ TakesMessage) =>
          /\ UNCHANGED <<request_channel, pending_tasks, task_count, watch_subscribers,
                         mux_hold, reply, evbuf, response_channel>>
          /\ mux_pc' = "select"]_vars

\* Such a command is about to be taken while a task is parked and the writer
\* is alive.
C40_Witness ==
    /\ UnknownUnwatchAtHead
    /\ writer_alive /\ reader_alive
    /\ task_count = 1

====
